---- MODULE Spec2Model ----
(***************************************************************************)
(* Model of the permission compiler and query engine of @cloud2go/auth-z   *)
(* (src/src/services/PermissionParser.ts, the PermissionParser of lines    *)
(* 148-663), and of the express middlewares built on them (src/index.ts,   *)
(* lines 47-334, with src/src/services/AuthenticationProvider.ts, lines    *)
(* 13-128).                                                                *)
(*                                                                         *)
(* A JavaScript string is a sequence of tokens (<<"User">>, <<":">>, ...), *)
(* so that concatenation is \o and String.prototype.split really splits.   *)
(* A value of type string[] | string (a block's field) is tagged with its  *)
(* runtime type, as typeof / Array.isArray see it.                         *)
(***************************************************************************)
EXTENDS Integers, Sequences, FiniteSets, TLC

\* The PermissionParser: the role list it was built over, its map, and the
\* last method called on it with the value returned.
VARIABLES roles, permissions, called, returned

\* The local variables of _populate while it runs: the indices of the role
\* and of the permission string it is at, and changedPermissions.
VARIABLES frame

\* The express side: the options handed to AuthZ, the request and the
\* response the middlewares are called with, what they have done in order
\* (calls of userIdentifier, rolesProvider and next, the attachment of
\* authZ, responses, exceptions), the middleware called last with the
\* permissions it was made with, and the position of the request in the
\* middleware chain.
VARIABLES options, request, response, log, handler, pc

\* The arrays and objects request.authZ holds and hands out, by address: two
\* references are to the same object when they hold the same address.
VARIABLES heap

\* The variables of the express side.
express == <<options, request, response, log, handler, pc, heap>>

vars ==
    <<roles, permissions, called, returned, frame, options, request, response, log, handler,
      pc, heap>>

(***************************************************************************)
(* Bounds of the model.                                                    *)
(***************************************************************************)
\* Largest number of roles in the role list handed to PermissionParser.
MaxRoles == 2

\* Largest number of permission strings in the whole role list.
MaxStrings == 3

(***************************************************************************)
(* src/src/util/constants.ts                                               *)
(***************************************************************************)
\* constants.authorization.resources.default: '__INTERNAL::[DEFAULT]__'
resources_default == <<"__INTERNAL", ":", ":", "[DEFAULT]__">>

\* constants.authorization.resources.all: 'All'
resources_all == <<"All">>

\* constants.authorization.resources.empty: [] as string[]
resources_empty == [t |-> "array", v |-> <<>>]

\* constants.authorization.actions.allowedValues
allowedValues == <<(<<"Read">>), (<<"Write">>), (<<"ReadWrite">>)>>

\* constants.authorization.keyGeneration.glue: ':'
glue == <<":">>

\* Role['context']: 'global' | 'local'
local == <<"local">>

global == <<"global">>

Contexts == {local, global}

(***************************************************************************)
(* JavaScript values.                                                      *)
(***************************************************************************)
\* The value undefined, where a string is expected (a missing segment of a
\* destructured split): a sequence no string of the model equals.
Undefined == <<"\\undefined">>

\* A string value held in a field of type string[] | string.
Str(s) == [t |-> "string", v |-> s]

\* An array value held in a field of type string[] | string.
Arr(a) == [t |-> "array", v |-> a]

\* permission[action] for a key the block does not have.
NoField == [t |-> "undefined", v |-> <<>>]

\* Array.isArray(x)
IsArray(x) == x.t = "array"

\* x === s, for a field x and a string s.
IsString(x, s) == x.t = "string" /\ x.v = s

\* array.includes(item)
Includes(a, item) == \E i \in 1..Len(a) : a[i] = item

\* The pieces of s from position i on, cut at every separator; piece is the
\* part of the current piece that lies before position i.
RECURSIVE SplitFrom(_, _, _, _)
SplitFrom(s, sep, i, piece) ==
    IF i > Len(s) THEN <<piece>>
    ELSE IF <<s[i]>> = sep
         THEN <<piece>> \o SplitFrom(s, sep, i + 1, <<>>)
         ELSE SplitFrom(s, sep, i + 1, Append(piece, s[i]))

\* string.split(separator), for a separator of one character.
Split(s, sep) == SplitFrom(s, sep, 1, <<>>)

\* Element i of a destructured array: undefined beyond its length.
Nth(a, i) == IF i <= Len(a) THEN a[i] ELSE Undefined

(***************************************************************************)
(* Map<string, PermissionBlock>: the entries in insertion order.           *)
(***************************************************************************)
MapHas(m, key) == \E i \in 1..Len(m) : m[i].key = key

MapGet(m, key) == m[CHOOSE i \in 1..Len(m) : m[i].key = key].block

MapSet(m, key, block) ==
    IF MapHas(m, key)
    THEN [i \in 1..Len(m) |-> IF m[i].key = key
                              THEN [key |-> key, block |-> block]
                              ELSE m[i]]
    ELSE Append(m, [key |-> key, block |-> block])

\* permission[action]: the block has the own keys Read and Write only.
Field(block, action) ==
    IF action = <<"Read">> THEN block.Read
    ELSE IF action = <<"Write">> THEN block.Write
    ELSE NoField

\* permission[action] = value, for an action of the block.
SetField(block, action, value) ==
    IF action = <<"Read">> THEN [block EXCEPT !.Read = value]
    ELSE IF action = <<"Write">> THEN [block EXCEPT !.Write = value]
    ELSE block

(***************************************************************************)
(* PermissionParser: key derivation and parsing.                           *)
(***************************************************************************)
\* _key with the context left out of the key.
_keyOfScope(context, scope) == glue \o scope

_key(context, scope) == context \o glue \o scope

_unKey(key) ==
    LET parts == Split(key, glue)
    IN <<Nth(parts, 1), Nth(parts, 2)>>

\* [scope, action, resource = default] = permissionString.split('.')
_parsePermission(permissionString) ==
    LET parts == Split(permissionString, <<".">>)
        resource == Nth(parts, 3)
    IN <<Nth(parts, 1),
         Nth(parts, 2),
         IF resource = Undefined THEN resources_default ELSE resource>>

\* ExpandAction with ReadWrite expanded to Read alone.
ExpandActionRead(action) ==
    IF action = <<"ReadWrite">> THEN <<(<<"Read">>)>> ELSE <<action>>

\* action === 'ReadWrite' ? ['Read', 'Write'] : [action]
ExpandAction(action) ==
    IF action = <<"ReadWrite">> THEN <<(<<"Read">>), (<<"Write">>)>> ELSE <<action>>

(***************************************************************************)
(* _populate                                                               *)
(***************************************************************************)
\* SetMarker leaving a list that holds resources as it is.
SetMarkerOnEmpty(block, action, resource) ==
    IF IsArray(Field(block, action)) /\ Field(block, action).v # <<>>
    THEN block
    ELSE SetField(block, action, Str(resource))

\* currentPermission[action] = resource, for a marker resource.
SetMarker(block, action, resource) == SetField(block, action, Str(resource))

\* PushResource replacing the list by the new resource.
PushResourceAlone(block, action, resource) ==
    IF IsArray(Field(block, action))
    THEN SetField(block, action, Arr(<<resource>>))
    ELSE block

\* PushResource starting a list when the field holds a marker.
PushResourceOverMarker(block, action, resource) ==
    IF IsArray(Field(block, action))
    THEN SetField(block, action, Arr(Append(Field(block, action).v, resource)))
    ELSE SetField(block, action, Arr(<<resource>>))

\* Array.isArray(currentPermission[action]) &&
\*     currentPermission[action].push(resource)
PushResource(block, action, resource) ==
    IF IsArray(Field(block, action))
    THEN SetField(block, action, Arr(Append(Field(block, action).v, resource)))
    ELSE block

\* The branch on the resource, applied to the actions _actions in turn.
RECURSIVE ApplyGrant(_, _, _)
ApplyGrant(block, _actions, resource) ==
    IF _actions = <<>> THEN block
    ELSE ApplyGrant(IF resource = resources_all \/ resource = resources_default
                    THEN SetMarker(block, Head(_actions), resource)
                    ELSE PushResource(block, Head(_actions), resource),
                    Tail(_actions), resource)

\* PopulateString without the test of the action against allowedValues.
PopulateStringUnchecked(st, context, permissionString) ==
    LET parsed == _parsePermission(permissionString)
        key == _key(context, parsed[1])
        currentPermission ==
            IF MapHas(st.map, key) THEN MapGet(st.map, key)
            ELSE [Read |-> Arr(<<>>), Write |-> Arr(<<>>)]
    IN [map |-> MapSet(st.map, key,
                       ApplyGrant(currentPermission, ExpandAction(parsed[2]), parsed[3])),
        changed |-> st.changed \union {key}]

\* The body of the inner loop of _populate for one permission string of a
\* role of the given context, on the state st = [map, changed].
PopulateString(st, context, permissionString) ==
    LET parsed == _parsePermission(permissionString)
        scope == parsed[1]
        action == parsed[2]
        resource == parsed[3]
        key == _key(context, scope)
        currentPermission ==
            IF MapHas(st.map, key) THEN MapGet(st.map, key)
            ELSE [Read |-> Arr(<<>>), Write |-> Arr(<<>>)]
        _actions == ExpandAction(action)
    IN IF ~Includes(allowedValues, action)
       THEN st
       ELSE [map |-> MapSet(st.map, key, ApplyGrant(currentPermission, _actions, resource)),
             changed |-> st.changed \union {key}]

\* The optimisation of one field, run after each role.
OptimizeField(field) ==
    IF IsArray(field)
    THEN IF Includes(field.v, resources_all)
         THEN Str(resources_all)
         ELSE IF Len(field.v) > 0
                 /\ \A i \in 1..Len(field.v) : field.v[i] = resources_default
              THEN Str(resources_default)
              ELSE field
    ELSE field

\* The loop over changedPermissions that ends the iteration of one role.
OptimizeChanged(st) ==
    [i \in 1..Len(st.map) |->
        IF st.map[i].key \in st.changed
        THEN [key |-> st.map[i].key,
              block |-> [Read |-> OptimizeField(st.map[i].block.Read),
                         Write |-> OptimizeField(st.map[i].block.Write)]]
        ELSE st.map[i]]

RECURSIVE PopulateStrings(_, _, _)
PopulateStrings(st, context, strings) ==
    IF strings = <<>> THEN st
    ELSE PopulateStrings(PopulateString(st, context, Head(strings)),
                         context, Tail(strings))

\* One iteration of the loop over the roles on a Map that is emptied first.
PopulateRoleAfresh(map, role) ==
    OptimizeChanged(PopulateStrings([map |-> <<>>, changed |-> {}],
                                    role.context, role.permissions))

\* One iteration of the loop over the roles.
PopulateRole(map, role) ==
    OptimizeChanged(PopulateStrings([map |-> map, changed |-> {}],
                                    role.context, role.permissions))

\* The map after _populate() has run over the role list.
RECURSIVE _populate(_)
_populate(rs) ==
    IF rs = <<>> THEN <<>>
    ELSE PopulateRole(_populate(SubSeq(rs, 1, Len(rs) - 1)), rs[Len(rs)])

(***************************************************************************)
(* _collapse and its helpers.                                              *)
(***************************************************************************)
\* single(read, write, resources)[0], for the context and scope of a key.
single(context, scope, read, write, resources) ==
    [context |-> context,
     scope |-> scope,
     action |-> [read |-> read, write |-> write],
     resources |-> resources]

equals(a, b) ==
    \/ a.t = b.t /\ a.t = "string" /\ a.v = b.v
    \/ /\ IsArray(a)
       /\ IsArray(b)
       /\ Len(a.v) = Len(b.v)
       /\ \A i \in 1..Len(b.v) : Includes(a.v, b.v[i])

includes(toBeTested, reference) ==
    IF IsString(toBeTested, resources_all) \/ IsString(toBeTested, resources_default)
    THEN TRUE
    ELSE IF IsString(reference, resources_all) \/ IsString(reference, resources_default)
         THEN FALSE
         ELSE \A i \in 1..Len(reference.v) : Includes(toBeTested.v, reference.v[i])

\* _collapse emitting the entry of Write before the entry of Read.
_collapseWriteFirst(key, block) ==
    LET context == _unKey(key)[1]
        scope == _unKey(key)[2]
        readEntry ==
            IF ~equals(block.Read, resources_empty)
            THEN <<single(context, scope, TRUE,
                          includes(block.Write, block.Read), block.Read)>>
            ELSE <<>>
        writeEntry ==
            IF ~equals(block.Write, resources_empty)
            THEN <<single(context, scope, includes(block.Read, block.Write),
                          TRUE, block.Write)>>
            ELSE <<>>
    IN IF equals(block.Read, block.Write)
       THEN <<single(context, scope, TRUE, TRUE, block.Read)>>
       ELSE writeEntry \o readEntry

_collapse(key, block) ==
    LET context == _unKey(key)[1]
        scope == _unKey(key)[2]
        readEntry ==
            IF ~equals(block.Read, resources_empty)
            THEN <<single(context, scope, TRUE,
                          includes(block.Write, block.Read), block.Read)>>
            ELSE <<>>
        writeEntry ==
            IF ~equals(block.Write, resources_empty)
            THEN <<single(context, scope, includes(block.Read, block.Write),
                          TRUE, block.Write)>>
            ELSE <<>>
    IN IF equals(block.Read, block.Write)
       THEN <<single(context, scope, TRUE, TRUE, block.Read)>>
       ELSE readEntry \o writeEntry

(***************************************************************************)
(* The checks.                                                             *)
(***************************************************************************)
\* CheckOne with the membership test of the requested resource left out.
CheckOneAnyList(permission, action, resource) ==
    \/ IsString(Field(permission, action), resources_all)
    \/ IsString(Field(permission, action), resources_default)
    \/ /\ IsArray(Field(permission, action))
       /\ Len(Field(permission, action).v) > 0

\* The test of one expanded action in the loop of _check.
CheckOne(permission, action, resource) ==
    \/ IsString(Field(permission, action), resources_all)
    \/ IsString(Field(permission, action), resources_default)
    \/ /\ IsArray(Field(permission, action))
       /\ Includes(Field(permission, action).v, resource)

\* _check passing when the map has no block for the key.
_checkWithoutBlock(map, scope, action, resource, context) ==
    LET key == _key(context, scope)
        actions == ExpandAction(action)
    IN IF ~MapHas(map, key) THEN TRUE
       ELSE \A i \in 1..Len(actions) : CheckOne(MapGet(map, key), actions[i], resource)

_check(map, scope, action, resource, context) ==
    LET key == _key(context, scope)
        actions == ExpandAction(action)
    IN IF ~MapHas(map, key) THEN FALSE
       ELSE \A i \in 1..Len(actions) : CheckOne(MapGet(map, key), actions[i], resource)

\* CheckActionOne without the case of a non-empty list.
CheckActionOneMarkers(permission, action) ==
    \/ IsString(Field(permission, action), resources_all)
    \/ IsString(Field(permission, action), resources_default)

\* The test of one expanded action in the loop of _checkAction.
CheckActionOne(permission, action) ==
    \/ IsString(Field(permission, action), resources_all)
    \/ IsString(Field(permission, action), resources_default)
    \/ /\ IsArray(Field(permission, action))
       /\ Len(Field(permission, action).v) > 0

\* _checkAction passing the fields that hold a non-empty list only.
_checkActionOfLists(map, scope, action, context) ==
    LET key == _key(context, scope)
        actions == ExpandAction(action)
    IN IF ~MapHas(map, key) THEN FALSE
       ELSE \A i \in 1..Len(actions) :
                /\ IsArray(Field(MapGet(map, key), actions[i]))
                /\ Len(Field(MapGet(map, key), actions[i]).v) > 0

_checkAction(map, scope, action, context) ==
    LET key == _key(context, scope)
        actions == ExpandAction(action)
    IN IF ~MapHas(map, key) THEN FALSE
       ELSE \A i \in 1..Len(actions) : CheckActionOne(MapGet(map, key), actions[i])

RECURSIVE FlatCollapse(_)
FlatCollapse(map) ==
    IF map = <<>> THEN <<>>
    ELSE _collapse(map[1].key, map[1].block) \o FlatCollapse(Tail(map))

\* The public methods, on a compiled map.
unwrap(map) == IF Len(map) = 0 THEN <<>> ELSE FlatCollapse(map)

checkLocal(map, p) ==
    LET parsed == _parsePermission(p)
    IN _check(map, parsed[1], parsed[2], parsed[3], local)

checkGlobal(map, p) ==
    LET parsed == _parsePermission(p)
    IN _check(map, parsed[1], parsed[2], parsed[3], global)

\* check with the global context left out.
checkLocalOnly(map, p) ==
    LET parsed == _parsePermission(p)
    IN _check(map, parsed[1], parsed[2], parsed[3], local)

check(map, p) ==
    LET parsed == _parsePermission(p)
    IN \/ _check(map, parsed[1], parsed[2], parsed[3], local)
       \/ _check(map, parsed[1], parsed[2], parsed[3], global)

checkActionLocal(map, p) ==
    LET parsed == _parsePermission(p)
    IN _checkAction(map, parsed[1], parsed[2], local)

checkActionGlobal(map, p) ==
    LET parsed == _parsePermission(p)
    IN _checkAction(map, parsed[1], parsed[2], global)

checkAction(map, p) ==
    LET parsed == _parsePermission(p)
    IN \/ _checkAction(map, parsed[1], parsed[2], local)
       \/ _checkAction(map, parsed[1], parsed[2], global)

\* checkContext answering by the local block alone when there is one.
checkContextLocalFirst(map, p) ==
    LET scope == _parsePermission(p)[1]
    IN IF MapHas(map, _key(local, scope)) THEN local
       ELSE IF MapHas(map, _key(global, scope)) THEN global
       ELSE <<"none">>

checkContext(map, p) ==
    LET scope == _parsePermission(p)[1]
        hasLocal == MapHas(map, _key(local, scope))
        hasGlobal == MapHas(map, _key(global, scope))
    IN IF hasLocal /\ hasGlobal THEN <<"both">>
       ELSE IF hasLocal THEN local
       ELSE IF hasGlobal THEN global
       ELSE <<"none">>

(***************************************************************************)
(* The inputs: permission strings, roles and role lists.                   *)
(***************************************************************************)
\* 'Scope.Action.Resource'
PS3(scope, action, resource) == scope \o <<".">> \o action \o <<".">> \o resource

\* 'Scope.Action'
PS2(scope, action) == scope \o <<".">> \o action

\* The resources of the permission strings of the model.
ResA == <<"A">>

ResB == <<"B">>

\* The permission strings the roles of a specification are made of. Each
\* specification draws its role lists from one of these sets.
\* The wildcard and a specific resource for Read, a specific one for Write.
GrantsSpecific ==
    {PS3(<<"User">>, <<"Read">>, resources_all), PS3(<<"User">>, <<"Read">>, ResA),
     PS3(<<"User">>, <<"Write">>, ResA)}

\* The wildcard and a specific resource for Read, no resource for Write.
GrantsMarkers ==
    {PS3(<<"User">>, <<"Read">>, resources_all), PS3(<<"User">>, <<"Read">>, ResA),
     PS2(<<"User">>, <<"Write">>)}

\* The wildcard, no resource and a specific resource, all for Read.
GrantsAbsorb ==
    {PS3(<<"User">>, <<"Read">>, resources_all), PS2(<<"User">>, <<"Read">>),
     PS3(<<"User">>, <<"Read">>, ResA)}

\* Two specific resources and the wildcard, all for Read.
GrantsMerge ==
    {PS3(<<"User">>, <<"Read">>, ResA), PS3(<<"User">>, <<"Read">>, ResB),
     PS3(<<"User">>, <<"Read">>, resources_all)}

\* ReadWrite with a specific resource, with the wildcard and with no
\* resource.
GrantsReadWrite ==
    {PS3(<<"User">>, <<"ReadWrite">>, ResA), PS3(<<"User">>, <<"ReadWrite">>, resources_all),
     PS2(<<"User">>, <<"ReadWrite">>)}

\* Grants on two scopes: a specific Read and a resource-less ReadWrite on
\* one, the wildcard for Write on the other.
GrantsContexts ==
    {PS3(<<"User">>, <<"Read">>, ResA), PS2(<<"User">>, <<"ReadWrite">>),
     PS3(<<"Report">>, <<"Write">>, resources_all)}

\* Read and Write on the same resource, each alone, and both on another.
GrantsUnscoped ==
    {PS3(<<"User">>, <<"Read">>, ResA), PS3(<<"User">>, <<"Write">>, ResA),
     PS3(<<"User">>, <<"ReadWrite">>, ResB)}

\* An action that is not allowed on one scope, a string without an action
\* segment and a valid grant on another scope.
GrantsInvalid ==
    {PS3(<<"Report">>, <<"Delete">>, ResA), <<"User">>, PS3(<<"User">>, <<"Read">>, ResA)}

\* A specific Read on one scope, a resource-less Write and a ReadWrite on
\* every resource on the other.
GrantsClassify ==
    {PS3(<<"User">>, <<"Read">>, ResA), PS2(<<"Report">>, <<"Write">>),
     PS3(<<"Report">>, <<"ReadWrite">>, resources_all)}

\* A specific Read, ReadWrite on every resource and a resource-less Write:
\* lists that grow, lists that become a marker and a marker that replaces
\* the other one.
GrantsMonotone ==
    {PS3(<<"User">>, <<"Read">>, ResA), PS3(<<"User">>, <<"ReadWrite">>, resources_all),
     PS2(<<"User">>, <<"Write">>)}

\* A scope that holds the glue character, the scope that is its part before
\* the glue, and a scope without it.
ScopeWithGlue == <<"a", ":", "b">>

GrantsKeys ==
    {PS3(ScopeWithGlue, <<"Read">>, ResA), PS3(<<"a">>, <<"Write">>, ResB),
     PS3(<<"User">>, <<"Read">>, ResA)}

\* Read on every resource and ReadWrite on a specific one for one scope,
\* a specific Write on another scope.
GrantsOrder ==
    {PS3(<<"Report">>, <<"Read">>, resources_all), PS3(<<"Report">>, <<"ReadWrite">>, ResA),
     PS3(<<"User">>, <<"Write">>, ResA)}

\* The permission strings the query actions are called with.
ActionQueries ==
    {PS3(<<"User">>, <<"Read">>, ResA), PS2(<<"User">>, <<"ReadWrite">>)}

\* The permission strings the properties quantify over.
QueryScopes == {<<"User">>, <<"Report">>}

QueryActions == {<<"Read">>, <<"Write">>, <<"ReadWrite">>}

QueryResources == {ResA, ResB, resources_all, resources_default}

QueryStrings ==
    {PS3(s, a, r) : s \in QueryScopes, a \in QueryActions, r \in QueryResources}
    \union {PS2(s, a) : s \in QueryScopes, a \in QueryActions}

\* The role list of n roles whose permission lists are the consecutive
\* pieces of the sequence strings that end at cut[1] <= ... <= cut[n], in
\* the contexts ctx[1], ..., ctx[n] (id, name and description are never
\* read by PermissionParser).
RoleListFrom(strings, n, cut, ctx) ==
    [i \in 1..n |->
        [context |-> ctx[i],
         permissions |-> SubSeq(strings, (IF i = 1 THEN 0 ELSE cut[i - 1]) + 1, cut[i])]]

\* rs is a role list of at most MaxRoles roles and at most MaxStrings
\* permission strings, all of them out of G.
IsRoleListOver(rs, G) ==
    \E k \in 0..MaxStrings, n \in 0..MaxRoles :
        \E strings \in [1..k -> G], cut \in [1..n -> 0..k], ctx \in [1..n -> Contexts] :
            /\ n = 0 => k = 0
            /\ n > 0 => cut[n] = k
            /\ \A i \in 1..(n - 1) : cut[i] <= cut[i + 1]
            /\ rs = RoleListFrom(strings, n, cut, ctx)

(***************************************************************************)
(* The state machine: a PermissionParser built over a role list, and the   *)
(* calls of its methods.                                                   *)
(***************************************************************************)
\* A PermissionParser used on its own: no AuthZ instance, no request.
Standalone ==
    /\ options = <<>>
    /\ request = <<>>
    /\ response = <<>>
    /\ log = <<>>
    /\ handler = <<>>
    /\ pc = "PermissionParser"
    /\ heap = <<>>

\* The state after PermissionParser(roles) has returned.
InitOver(G) ==
    /\ IsRoleListOver(roles, G)
    /\ permissions = _populate(roles)
    /\ called = "PermissionParser"
    /\ returned = <<>>
    /\ frame = <<>>
    /\ Standalone

Init == InitOver(GrantsSpecific)

InitMarkers == InitOver(GrantsMarkers)

InitAbsorb == InitOver(GrantsAbsorb)

InitMerge == InitOver(GrantsMerge)

InitReadWrite == InitOver(GrantsReadWrite)

InitContexts == InitOver(GrantsContexts)

InitUnscoped == InitOver(GrantsUnscoped)

InitInvalid == InitOver(GrantsInvalid)

InitClassify == InitOver(GrantsClassify)

InitKeys == InitOver(GrantsKeys)

InitOrder == InitOver(GrantsOrder)

InitMonotone == InitOver(GrantsMonotone)

\* unwrap() taking the entries out of the Map as it collapses them.
UnwrapDraining ==
    /\ called # "_populate"
    /\ called' = "unwrap"
    /\ returned' = unwrap(permissions)
    /\ permissions' = <<>>
    /\ UNCHANGED <<roles, frame, express>>

Unwrap ==
    /\ called # "_populate"
    /\ called' = "unwrap"
    /\ returned' = unwrap(permissions)
    /\ UNCHANGED <<roles, permissions, frame, express>>

Check ==
    \E p \in ActionQueries :
        /\ called # "_populate"
        /\ called' = "check"
        /\ returned' = check(permissions, p)
        /\ UNCHANGED <<roles, permissions, frame, express>>

CheckLocal ==
    \E p \in ActionQueries :
        /\ called # "_populate"
        /\ called' = "checkLocal"
        /\ returned' = checkLocal(permissions, p)
        /\ UNCHANGED <<roles, permissions, frame, express>>

CheckGlobal ==
    \E p \in ActionQueries :
        /\ called # "_populate"
        /\ called' = "checkGlobal"
        /\ returned' = checkGlobal(permissions, p)
        /\ UNCHANGED <<roles, permissions, frame, express>>

CheckAction ==
    \E p \in ActionQueries :
        /\ called # "_populate"
        /\ called' = "checkAction"
        /\ returned' = checkAction(permissions, p)
        /\ UNCHANGED <<roles, permissions, frame, express>>

CheckActionLocal ==
    \E p \in ActionQueries :
        /\ called # "_populate"
        /\ called' = "checkActionLocal"
        /\ returned' = checkActionLocal(permissions, p)
        /\ UNCHANGED <<roles, permissions, frame, express>>

CheckActionGlobal ==
    \E p \in ActionQueries :
        /\ called # "_populate"
        /\ called' = "checkActionGlobal"
        /\ returned' = checkActionGlobal(permissions, p)
        /\ UNCHANGED <<roles, permissions, frame, express>>

CheckContext ==
    \E p \in ActionQueries :
        /\ called # "_populate"
        /\ called' = "checkContext"
        /\ returned' = checkContext(permissions, p)
        /\ UNCHANGED <<roles, permissions, frame, express>>

Next ==
    \/ Unwrap
    \/ Check
    \/ CheckLocal
    \/ CheckGlobal
    \/ CheckAction
    \/ CheckActionLocal
    \/ CheckActionGlobal
    \/ CheckContext

Spec == Init /\ [][Next]_vars

SpecMarkers == InitMarkers /\ [][Next]_vars

SpecAbsorb == InitAbsorb /\ [][Next]_vars

SpecMerge == InitMerge /\ [][Next]_vars

SpecReadWrite == InitReadWrite /\ [][Next]_vars

SpecContexts == InitContexts /\ [][Next]_vars

SpecUnscoped == InitUnscoped /\ [][Next]_vars

SpecInvalid == InitInvalid /\ [][Next]_vars

SpecClassify == InitClassify /\ [][Next]_vars

SpecKeys == InitKeys /\ [][Next]_vars

SpecOrder == InitOrder /\ [][Next]_vars

SpecMonotone == InitMonotone /\ [][Next]_vars

(***************************************************************************)
(* _populate, one iteration at a time: the loop over the roles, the loop   *)
(* over the permission strings of a role, and the optimisation that ends   *)
(* the iteration of a role (PermissionParser.ts 198-298).                  *)
(***************************************************************************)
\* Grants of one scope: a marker of each kind and a specific resource.
GrantsSticky ==
    {PS2(<<"User">>, <<"Read">>),
     PS3(<<"User">>, <<"ReadWrite">>, resources_all),
     PS3(<<"User">>, <<"Read">>, ResA)}

\* Grants of one scope and action: both markers and two specific resources.
GrantsDominance ==
    {PS2(<<"User">>, <<"Read">>),
     PS3(<<"User">>, <<"Read">>, resources_all),
     PS3(<<"User">>, <<"Read">>, ResA),
     PS3(<<"User">>, <<"Read">>, ResB)}

\* A specific resource for Read and no resource for both actions.
GrantsReadOnly ==
    {PS3(<<"User">>, <<"Read">>, ResA), PS2(<<"User">>, <<"ReadWrite">>)}

\* PermissionParser(roles) has made the empty Map and calls _populate().
InitPopulate(G) ==
    /\ IsRoleListOver(roles, G)
    /\ permissions = <<>>
    /\ called = "_populate"
    /\ returned = <<>>
    /\ frame = [role |-> 1, string |-> 1, changedPermissions |-> {}]
    /\ Standalone

InitSticky == InitPopulate(GrantsSticky)

\* The role _populate is at.
AtRole == frame.role <= Len(roles)

\* The permission string _populate is at.
AtString == AtRole /\ frame.string <= Len(roles[frame.role].permissions)

\* One iteration of the loop over role.permissions.
PopulateNext ==
    /\ called = "_populate"
    /\ AtString
    /\ LET role == roles[frame.role]
           st == PopulateString([map |-> permissions,
                                 changed |-> frame.changedPermissions],
                                role.context, role.permissions[frame.string])
       IN /\ permissions' = st.map
          /\ frame' = [frame EXCEPT !.string = @ + 1,
                                    !.changedPermissions = st.changed]
    /\ UNCHANGED <<roles, called, returned, express>>

\* The loop over changedPermissions and changedPermissions.clear(), which
\* end the iteration of a role.
OptimizeNext ==
    /\ called = "_populate"
    /\ AtRole
    /\ ~AtString
    /\ permissions' = OptimizeChanged([map |-> permissions,
                                       changed |-> frame.changedPermissions])
    /\ frame' = [role |-> frame.role + 1, string |-> 1, changedPermissions |-> {}]
    /\ UNCHANGED <<roles, called, returned, express>>

\* _populate() returns, and PermissionParser(roles) with it.
Return ==
    /\ called = "_populate"
    /\ ~AtRole
    /\ called' = "PermissionParser"
    /\ frame' = <<>>
    /\ UNCHANGED <<roles, permissions, returned, express>>

NextPopulate ==
    \/ PopulateNext
    \/ OptimizeNext
    \/ Return

InitDominance == InitPopulate(GrantsDominance)

SpecSticky == InitSticky /\ [][NextPopulate]_vars

SpecDominance == InitDominance /\ [][NextPopulate]_vars

\* PermissionParser(roles) from its call on: _populate, and then the calls
\* of the methods of the object it returns.
InitReadOnly == InitPopulate(GrantsReadOnly)

NextReadOnly ==
    \/ NextPopulate
    \/ Next

SpecReadOnly == InitReadOnly /\ [][NextReadOnly]_vars

(***************************************************************************)
(* The express side: src/index.ts with AuthenticationProvider.ts,          *)
(* parseOptions.ts, requestKind.ts and responseError.ts.                   *)
(***************************************************************************)
\* Most calls of next() a request gets in the model: the one of the global
\* middleware and those of the route middlewares after it.
MaxNext == 2

\* The value null, where a string is expected.
Null == <<"\\null">>

\* String.prototype.toUpperCase, on the words of the model.
toUpperCase(s) ==
    [i \in 1..Len(s) |->
        CASE s[i] = "get" -> "GET"
          [] s[i] = "post" -> "POST"
          [] OTHER -> s[i]]

\* String.prototype.toLowerCase, on the words of the model.
toLowerCase(s) ==
    [i \in 1..Len(s) |->
        CASE s[i] = "/Authenticate" -> "/authenticate"
          [] s[i] = "/AuthZ/IAM" -> "/authz/iam"
          [] OTHER -> s[i]]

\* `${method.toUpperCase()} ${path.toLowerCase()}`
requestKind(method, path) == toUpperCase(method) \o <<" ">> \o toLowerCase(path)

\* responseError(message)
responseError(message) == [error |-> message]

\* constants.defaultOptions
defaultOptions ==
    [authentication |-> [expirationTimeSpan |-> 7200,
                         method |-> <<"POST">>,
                         path |-> <<"/authenticate">>],
     authorization |-> [iamEndpoint |-> [is |-> "object",
                                         method |-> <<"GET">>,
                                         path |-> <<"/authz/iam">>]]]

\* options.authorization.iamEndpoint as the application gives it: null, or
\* left undefined.
IamNull == [is |-> "null", method |-> <<>>, path |-> <<>>]

IamUndefined == [is |-> "undefined", method |-> <<>>, path |-> <<>>]

\* parseOptions(options): the method and the path of the authentication
\* endpoint are left to their defaults; a time span is a number of half
\* seconds.
parseOptions(opts) ==
    [authentication |->
        [expirationTimeSpan |-> opts.authentication.expirationTimeSpan,
         method |-> defaultOptions.authentication.method,
         path |-> defaultOptions.authentication.path],
     authorization |->
        [rolesProvider |-> opts.authorization.rolesProvider,
         iamEndpoint |->
            IF opts.authorization.iamEndpoint.is = "null" THEN IamNull
            ELSE IF opts.authorization.iamEndpoint.is = "undefined"
                 THEN defaultOptions.authorization.iamEndpoint
                 ELSE opts.authorization.iamEndpoint]]

authenticationRequestKind(_options) ==
    requestKind(_options.authentication.method, _options.authentication.path)

\* iamEndpointRequestKind without the test of options for null.
iamEndpointRequestKindOfDefault(opts, _options) ==
    requestKind(defaultOptions.authorization.iamEndpoint.method,
                defaultOptions.authorization.iamEndpoint.path)

iamEndpointRequestKind(opts, _options) ==
    IF opts.authorization.iamEndpoint.is # "null"
       /\ _options.authorization.iamEndpoint.is # "null"
    THEN requestKind(_options.authorization.iamEndpoint.method,
                     _options.authorization.iamEndpoint.path)
    ELSE Null

(***************************************************************************)
(* jsonwebtoken, as AuthenticationProvider uses it: a token is the word    *)
(* 'jwt.' followed by the user identifier it was signed for; a token past  *)
(* its expiration carries one more word.                                   *)
(***************************************************************************)
\* jwt.sign({ userId }, secret, { expiresIn, issuer, audience, subject })
sign(userId) == <<"jwt.">> \o userId

\* The outcome of a call that returns a user identifier or throws.
Returns(userId) == [threw |-> FALSE, message |-> <<>>, userId |-> userId]

Throws(message) == [threw |-> TRUE, message |-> message, userId |-> <<>>]

\* jwt.verify(token, secret, { audience, issuer })
verify(token) ==
    IF token = Undefined \/ token = <<>> THEN Throws(<<"jwt must be provided">>)
    ELSE IF Len(token) = 2 /\ token[1] = "jwt." THEN Returns(<<token[2]>>)
    ELSE IF Len(token) = 3 /\ token[1] = "jwt." /\ token[3] = ".expired"
         THEN Throws(<<"jwt expired">>)
    ELSE Throws(<<"jwt malformed">>)

\* Math.round of a number of half seconds, in whole seconds.
round(halves) == (halves + 1) \div 2

(***************************************************************************)
(* AuthenticationProvider                                                  *)
(***************************************************************************)
\* response.status(code).json(body)
StatusJson(res, code, body) ==
    [statusCode |-> code, body |-> body, sent |-> res.sent + 1]

\* response.json(body)
Json(res, body) == [res EXCEPT !.body = body, !.sent = @ + 1]

\* authenticate(), for the outcome identified of options.authentication
\* .userIdentifier(request): the response it leaves (the secret is set,
\* parseOptions refuses options without one).
authenticate(_options, res, identified) ==
    IF identified.threw
    THEN StatusJson(res, 401, responseError(<<"Invalid user: ">> \o identified.message))
    ELSE IF identified.userId = Null
    THEN StatusJson(res, 401, responseError(<<"Invalid user">>))
    ELSE LET expiresIn ==
                 round(IF _options.authentication.expirationTimeSpan # 0
                       THEN _options.authentication.expirationTimeSpan
                       ELSE defaultOptions.authentication.expirationTimeSpan)
         IN Json(res, [token |-> sign(identified.userId), expiresIn |-> expiresIn])

\* validate() accepting any authorization type.
validateAnyType(req) ==
    LET authorization == req.headers.authorization
        parts == Split(authorization, <<" ">>)
    IN IF authorization = Undefined \/ authorization = <<>>
       THEN Throws(<<"Missing authorization header">>)
       ELSE verify(Nth(parts, 2))

\* validate(): the user identifier of the token, or the error thrown.
validate(req) ==
    LET authorization == req.headers.authorization
        parts == Split(authorization, <<" ">>)
        type == Nth(parts, 1)
        token == Nth(parts, 2)
    IN IF authorization = Undefined \/ authorization = <<>>
       THEN Throws(<<"Missing authorization header">>)
       ELSE IF type # <<"Bearer">>
       THEN Throws(<<"Invalid authorization type">>)
       ELSE verify(token)

(***************************************************************************)
(* AuthZ: the global middleware and request.authZ.                         *)
(***************************************************************************)
\* request.authZ before the global middleware has set it.
NoAuthZ ==
    [defined |-> FALSE, userId |-> <<>>, roles |-> <<>>,
     permissionParser |-> <<>>, permissions |-> <<>>]

\* The object the global middleware sets request.authZ to: what its methods
\* close over.
AuthZObject(userId, rs, permissionParser, unwrapped) ==
    [defined |-> TRUE, userId |-> userId, roles |-> rs,
     permissionParser |-> permissionParser, permissions |-> unwrapped]

\* rolesProvider called with the user identifier of somebody else.
rolesProviderOfAlice(_options, userId) ==
    _options.authorization.rolesProvider[<<"alice">>]

\* await _options.authorization.rolesProvider(userId): the roles, or the
\* rejection of the promise.
rolesProvider(_options, userId) == _options.authorization.rolesProvider[userId]

\* structuredClone(value): a value equal to the original.
structuredClone(value) == value

\* The methods of request.authZ.
getPermissions(authZ) == structuredClone(authZ.permissions)

getGlobalPermissions(authZ) ==
    structuredClone(SelectSeq(authZ.permissions, LAMBDA permission : permission.context = global))

getLocalPermissions(authZ) ==
    structuredClone(SelectSeq(authZ.permissions, LAMBDA permission : permission.context = local))

getRoles(authZ) == structuredClone(authZ.roles)

getPermissionContext(authZ, permission) == checkContext(authZ.permissionParser, permission)

hasPermissions(authZ, ps) ==
    \A i \in 1..Len(ps) : check(authZ.permissionParser, ps[i])

hasGlobalPermissions(authZ, ps) ==
    \A i \in 1..Len(ps) : checkGlobal(authZ.permissionParser, ps[i])

hasLocalPermissions(authZ, ps) ==
    \A i \in 1..Len(ps) : checkLocal(authZ.permissionParser, ps[i])

hasActions(authZ, ps) ==
    \A i \in 1..Len(ps) : checkAction(authZ.permissionParser, ps[i])

\* hasGlobalActions with Array.prototype.some in the place of every.
hasGlobalActionsOfSome(authZ, ps) ==
    \E i \in 1..Len(ps) : checkActionGlobal(authZ.permissionParser, ps[i])

hasGlobalActions(authZ, ps) ==
    \A i \in 1..Len(ps) : checkActionGlobal(authZ.permissionParser, ps[i])

hasLocalActions(authZ, ps) ==
    \A i \in 1..Len(ps) : checkActionLocal(authZ.permissionParser, ps[i])

getUserIdentifier(authZ) == authZ.userId

\* What one call of a middleware does: the request and the response it
\* leaves, the events it adds to the log, the position of the request after
\* it, and the PermissionParser it has built.
Effect(req, res, events, position, rs, map) ==
    [request |-> req, response |-> res, log |-> events, pc |-> position,
     roles |-> rs, permissions |-> map]

\* middleware(request, response, next), for the outcome identified of
\* userIdentifier should authenticate() call it.
middleware(opts, req, res, identified) ==
    LET _options == parseOptions(opts)
        kind == requestKind(req.method, req.baseUrl \o req.path)
        validated == validate(req)
        userId == validated.userId
        provided == rolesProvider(_options, userId)
        permissionParser == _populate(provided.roles)
        unwrapped == unwrap(permissionParser)
    IN IF kind = authenticationRequestKind(_options)
       THEN Effect(req, authenticate(_options, res, identified),
                   <<"userIdentifier", "response">>, "end", <<>>, <<>>)
       ELSE IF validated.threw
       THEN Effect(req,
                   StatusJson(res, 401,
                              responseError(<<"Authentication error: ">> \o validated.message)),
                   <<"response">>, "end", <<>>, <<>>)
       ELSE IF provided.rejects
       THEN Effect(req, res, <<"rolesProvider", "rejection">>, "rejected", <<>>, <<>>)
       ELSE IF iamEndpointRequestKind(opts, _options) # Null
               /\ kind = iamEndpointRequestKind(opts, _options)
       THEN Effect(req,
                   Json(res, [userId |-> userId, roles |-> provided.roles,
                              permissions |-> unwrapped]),
                   <<"rolesProvider", "response">>, "end",
                   provided.roles, permissionParser)
       ELSE Effect([req EXCEPT !.authZ = AuthZObject(userId, provided.roles,
                                                     permissionParser, unwrapped)],
                   res, <<"rolesProvider", "authZ", "next">>, "route",
                   provided.roles, permissionParser)

(***************************************************************************)
(* AuthZ: the route middlewares.                                           *)
(***************************************************************************)
\* getChecker with the has...Permissions and has...Actions methods of the
\* two contexts exchanged.
getCheckerOtherContext(contextType, type) ==
    IF type = "full"
    THEN IF contextType # Null
         THEN IF contextType = global THEN "hasLocalPermissions" ELSE "hasGlobalPermissions"
         ELSE "hasPermissions"
    ELSE IF type = "action"
    THEN IF contextType # Null
         THEN IF contextType = global THEN "hasLocalActions" ELSE "hasGlobalActions"
         ELSE "hasActions"
    ELSE "() => false"

\* getChecker(authZ): the method of authZ the factory made by
\* _withPermissions(contextType, type) checks with.
getChecker(contextType, type) ==
    IF type = "full"
    THEN IF contextType # Null
         THEN IF contextType = global THEN "hasGlobalPermissions" ELSE "hasLocalPermissions"
         ELSE "hasPermissions"
    ELSE IF type = "action"
    THEN IF contextType # Null
         THEN IF contextType = global THEN "hasGlobalActions" ELSE "hasLocalActions"
         ELSE "hasActions"
    ELSE "() => false"

\* permissionChecker(...permissions)
permissionChecker(method, authZ, ps) ==
    CASE method = "hasPermissions" -> hasPermissions(authZ, ps)
      [] method = "hasGlobalPermissions" -> hasGlobalPermissions(authZ, ps)
      [] method = "hasLocalPermissions" -> hasLocalPermissions(authZ, ps)
      [] method = "hasActions" -> hasActions(authZ, ps)
      [] method = "hasGlobalActions" -> hasGlobalActions(authZ, ps)
      [] method = "hasLocalActions" -> hasLocalActions(authZ, ps)
      [] OTHER -> FALSE

\* The middleware made by _withPermissions(contextType, type)(...ps), called
\* with (request, response, next): reading a method of an undefined
\* request.authZ throws a TypeError.
routeMiddleware(contextType, type, ps, req, res) ==
    IF ~req.authZ.defined
    THEN Effect(req, res, <<"TypeError">>, "thrown", <<>>, <<>>)
    ELSE IF ~permissionChecker(getChecker(contextType, type), req.authZ, ps)
    THEN Effect(req,
                StatusJson(res, 403,
                           responseError(<<"You don't have permissions to access this resource.">>)),
                <<"response">>, "end", <<>>, <<>>)
    ELSE Effect(req, res, <<"next">>, "route", <<>>, <<>>)

(***************************************************************************)
(* The requests, the options and the permission lists of the model.        *)
(***************************************************************************)
alice == <<"alice">>

bob == <<"bob">>

UserIds == {alice, bob}

\* What rolesProvider resolves to, or that it rejects.
Provides(rs) == [rejects |-> FALSE, roles |-> rs]

Rejects == [rejects |-> TRUE, roles |-> <<>>]

LocalUser == <<[context |-> local, permissions |-> <<PS3(<<"User">>, <<"Read">>, ResA)>>]>>

MixedUser ==
    <<[context |-> local, permissions |-> <<PS3(<<"User">>, <<"Read">>, ResA)>>],
      [context |-> global,
       permissions |-> <<PS2(<<"Report">>, <<"Write">>), PS3(<<"User">>, <<"Write">>, resources_all)>>]>>

\* The rolesProvider functions of the model, by what they give for alice
\* and for bob.
RolesProviders ==
    {[userId \in UserIds |-> IF userId = alice THEN pair[1] ELSE pair[2]] :
        pair \in {<<Provides(LocalUser), Provides(<<>>)>>,
                  <<Provides(MixedUser), Provides(LocalUser)>>,
                  <<Rejects, Provides(MixedUser)>>,
                  <<Provides(<<>>), Rejects>>}}

\* The options an AuthZ instance is made with: a time span of no or of
\* three half seconds, the IAM endpoint disabled or left to its default.
OptionsOfModel ==
    {[authentication |-> [expirationTimeSpan |-> span],
      authorization |-> [rolesProvider |-> provider, iamEndpoint |-> iam]] :
        span \in {0, 3}, provider \in RolesProviders, iam \in {IamNull, IamUndefined}}

\* The Authorization headers of the requests: none, one of another type,
\* 'Bearer' without a token, with a token that is none, with an expired
\* token, and with the token of alice and of bob.
AuthorizationHeaders ==
    {Undefined,
     <<"Basic", " ">> \o sign(alice),
     <<"Bearer">>,
     <<"Bearer", " ", "garbage">>,
     <<"Bearer", " ">> \o sign(alice) \o <<".expired">>,
     <<"Bearer", " ">> \o sign(alice),
     <<"Bearer", " ">> \o sign(bob)}

RequestsOfModel ==
    {[method |-> method, baseUrl |-> <<>>, path |-> path,
      headers |-> [authorization |-> authorization], authZ |-> NoAuthZ] :
        method \in {<<"GET">>, <<"post">>},
        path \in {<<"/Authenticate">>, <<"/authz/iam">>, <<"/users">>},
        authorization \in AuthorizationHeaders}

\* What options.authentication.userIdentifier(request) may do.
IdentifierOutcomes == {Throws(<<"no such user">>), Returns(Null), Returns(alice)}

\* The permission lists a route middleware is made with or a has... method
\* is called with.
RequiredPermissions ==
    {<<>>,
     <<PS3(<<"User">>, <<"Read">>, ResA)>>,
     <<PS3(<<"User">>, <<"Read">>, ResB)>>,
     <<PS3(<<"User">>, <<"Read">>, ResA), PS2(<<"Report">>, <<"Write">>)>>}

\* The number of calls of next() so far.
NextCalls == Len(SelectSeq(log, LAMBDA event : event = "next"))

(***************************************************************************)
(* The state machine of a request passing through the middlewares.         *)
(***************************************************************************)
\* An AuthZ instance has been made and a request has arrived.
InitExpress ==
    /\ options \in OptionsOfModel
    /\ request \in RequestsOfModel
    /\ response = [statusCode |-> 200, body |-> [none |-> TRUE], sent |-> 0]
    /\ log = <<>>
    /\ handler = [name |-> "AuthZ", permissions |-> <<>>]
    /\ pc = "middleware"
    /\ roles = <<>>
    /\ permissions = <<>>
    /\ called = "AuthZ"
    /\ returned = <<>>
    /\ frame = <<>>
    /\ heap = <<>>

\* instance.middleware(request, response, next); when authenticate() calls
\* options.authentication.userIdentifier(request), what it returned or threw
\* is kept.
Middleware ==
    /\ pc = "middleware"
    /\ \E identified \in IdentifierOutcomes :
        LET effect == middleware(options, request, response, identified)
        IN /\ request' = effect.request
           /\ response' = effect.response
           /\ log' = log \o effect.log
           /\ pc' = effect.pc
           /\ roles' = effect.roles
           /\ permissions' = effect.permissions
           /\ IF effect.log[1] = "userIdentifier"
              THEN /\ called' = "userIdentifier"
                   /\ returned' = identified
              ELSE UNCHANGED <<called, returned>>
    /\ handler' = [name |-> "middleware", permissions |-> <<>>]
    /\ UNCHANGED <<options, heap, frame>>

\* instance.withPermissions(...ps)(request, response, next)
WithPermissions ==
    /\ pc \in {"middleware", "route"}
    /\ NextCalls < MaxNext
    /\ \E ps \in RequiredPermissions :
        LET effect == routeMiddleware(Null, "full", ps, request, response)
        IN /\ response' = effect.response
           /\ log' = log \o effect.log
           /\ pc' = effect.pc
           /\ handler' = [name |-> "withPermissions", permissions |-> ps]
    /\ UNCHANGED <<options, request, roles, permissions, called, returned, heap, frame>>

\* instance.withGlobalPermissions(...ps)(request, response, next)
WithGlobalPermissions ==
    /\ pc \in {"middleware", "route"}
    /\ NextCalls < MaxNext
    /\ \E ps \in RequiredPermissions :
        LET effect == routeMiddleware(global, "full", ps, request, response)
        IN /\ response' = effect.response
           /\ log' = log \o effect.log
           /\ pc' = effect.pc
           /\ handler' = [name |-> "withGlobalPermissions", permissions |-> ps]
    /\ UNCHANGED <<options, request, roles, permissions, called, returned, heap, frame>>

\* instance.withLocalPermissions(...ps)(request, response, next)
WithLocalPermissions ==
    /\ pc \in {"middleware", "route"}
    /\ NextCalls < MaxNext
    /\ \E ps \in RequiredPermissions :
        LET effect == routeMiddleware(local, "full", ps, request, response)
        IN /\ response' = effect.response
           /\ log' = log \o effect.log
           /\ pc' = effect.pc
           /\ handler' = [name |-> "withLocalPermissions", permissions |-> ps]
    /\ UNCHANGED <<options, request, roles, permissions, called, returned, heap, frame>>

\* instance.withActions(...ps)(request, response, next)
WithActions ==
    /\ pc \in {"middleware", "route"}
    /\ NextCalls < MaxNext
    /\ \E ps \in RequiredPermissions :
        LET effect == routeMiddleware(Null, "action", ps, request, response)
        IN /\ response' = effect.response
           /\ log' = log \o effect.log
           /\ pc' = effect.pc
           /\ handler' = [name |-> "withActions", permissions |-> ps]
    /\ UNCHANGED <<options, request, roles, permissions, called, returned, heap, frame>>

\* instance.withGlobalActions(...ps)(request, response, next)
WithGlobalActions ==
    /\ pc \in {"middleware", "route"}
    /\ NextCalls < MaxNext
    /\ \E ps \in RequiredPermissions :
        LET effect == routeMiddleware(global, "action", ps, request, response)
        IN /\ response' = effect.response
           /\ log' = log \o effect.log
           /\ pc' = effect.pc
           /\ handler' = [name |-> "withGlobalActions", permissions |-> ps]
    /\ UNCHANGED <<options, request, roles, permissions, called, returned, heap, frame>>

\* instance.withLocalActions(...ps)(request, response, next)
WithLocalActions ==
    /\ pc \in {"middleware", "route"}
    /\ NextCalls < MaxNext
    /\ \E ps \in RequiredPermissions :
        LET effect == routeMiddleware(local, "action", ps, request, response)
        IN /\ response' = effect.response
           /\ log' = log \o effect.log
           /\ pc' = effect.pc
           /\ handler' = [name |-> "withLocalActions", permissions |-> ps]
    /\ UNCHANGED <<options, request, roles, permissions, called, returned, heap, frame>>

\* The calls a handler behind the global middleware makes on request.authZ.
GetPermissions ==
    /\ pc = "route"
    /\ called' = "getPermissions"
    /\ returned' = getPermissions(request.authZ)
    /\ UNCHANGED <<roles, permissions, frame, express>>

GetGlobalPermissions ==
    /\ pc = "route"
    /\ called' = "getGlobalPermissions"
    /\ returned' = getGlobalPermissions(request.authZ)
    /\ UNCHANGED <<roles, permissions, frame, express>>

GetLocalPermissions ==
    /\ pc = "route"
    /\ called' = "getLocalPermissions"
    /\ returned' = getLocalPermissions(request.authZ)
    /\ UNCHANGED <<roles, permissions, frame, express>>

GetRoles ==
    /\ pc = "route"
    /\ called' = "getRoles"
    /\ returned' = getRoles(request.authZ)
    /\ UNCHANGED <<roles, permissions, frame, express>>

GetPermissionContext ==
    /\ pc = "route"
    /\ \E ps \in RequiredPermissions \ {<<>>} :
        /\ called' = "getPermissionContext"
        /\ returned' = getPermissionContext(request.authZ, ps[1])
    /\ UNCHANGED <<roles, permissions, frame, express>>

HasPermissions ==
    /\ pc = "route"
    /\ \E ps \in RequiredPermissions :
        /\ called' = "hasPermissions"
        /\ returned' = hasPermissions(request.authZ, ps)
    /\ UNCHANGED <<roles, permissions, frame, express>>

HasGlobalPermissions ==
    /\ pc = "route"
    /\ \E ps \in RequiredPermissions :
        /\ called' = "hasGlobalPermissions"
        /\ returned' = hasGlobalPermissions(request.authZ, ps)
    /\ UNCHANGED <<roles, permissions, frame, express>>

HasLocalPermissions ==
    /\ pc = "route"
    /\ \E ps \in RequiredPermissions :
        /\ called' = "hasLocalPermissions"
        /\ returned' = hasLocalPermissions(request.authZ, ps)
    /\ UNCHANGED <<roles, permissions, frame, express>>

HasActions ==
    /\ pc = "route"
    /\ \E ps \in RequiredPermissions :
        /\ called' = "hasActions"
        /\ returned' = hasActions(request.authZ, ps)
    /\ UNCHANGED <<roles, permissions, frame, express>>

HasGlobalActions ==
    /\ pc = "route"
    /\ \E ps \in RequiredPermissions :
        /\ called' = "hasGlobalActions"
        /\ returned' = hasGlobalActions(request.authZ, ps)
    /\ UNCHANGED <<roles, permissions, frame, express>>

HasLocalActions ==
    /\ pc = "route"
    /\ \E ps \in RequiredPermissions :
        /\ called' = "hasLocalActions"
        /\ returned' = hasLocalActions(request.authZ, ps)
    /\ UNCHANGED <<roles, permissions, frame, express>>

GetUserIdentifier ==
    /\ pc = "route"
    /\ called' = "getUserIdentifier"
    /\ returned' = getUserIdentifier(request.authZ)
    /\ UNCHANGED <<roles, permissions, frame, express>>

NextExpress ==
    \/ Middleware
    \/ WithPermissions
    \/ WithGlobalPermissions
    \/ WithLocalPermissions
    \/ WithActions
    \/ WithGlobalActions
    \/ WithLocalActions
    \/ GetPermissions
    \/ GetGlobalPermissions
    \/ GetLocalPermissions
    \/ GetRoles
    \/ GetPermissionContext
    \/ HasPermissions
    \/ HasGlobalPermissions
    \/ HasLocalPermissions
    \/ HasActions
    \/ HasGlobalActions
    \/ HasLocalActions
    \/ GetUserIdentifier

SpecExpress == InitExpress /\ [][NextExpress]_vars

(***************************************************************************)
(* request.authZ with the identity of its objects: the arrays of the roles *)
(* rolesProvider returned, of the compiled Map and of unwrap(), and what   *)
(* the get... methods hand to the application (src/index.ts 131-180).      *)
(***************************************************************************)
\* Most calls of get... methods and mutations of what they returned on one
\* request.
MaxUses == 3

\* An array, of strings or of the addresses of objects.
ArrayOf(items) == [kind |-> "array", items |-> items]

\* A Role object; its permissions are the array at an address.
RoleObject(context, at) == [kind |-> "role", context |-> context, permissions |-> at]

\* A Permission object; when its resources are an array, the field holds the
\* address of the array.
PermissionObject(entry) == [kind |-> "permission", entry |-> entry]

\* A field that is the array at an address.
ArrAt(at) == [t |-> "array", v |-> <<>>, at |-> at]

\* A field as it reads: an array with the items it holds now.
Deref(h, f) == IF IsArray(f) THEN [f EXCEPT !.v = h[f.at].items] ELSE f

\* A field as a value, without the address.
ValueOfField(h, f) == IF IsArray(f) THEN Arr(h[f.at].items) ELSE f

\* The role list rs as rolesProvider returns it: an array of Role objects,
\* each with an array of permission strings.
PlaceRoles(h, rs) ==
    LET objects ==
            [k \in 1..(2 * Len(rs)) |->
                IF k % 2 = 1
                THEN ArrayOf(rs[(k + 1) \div 2].permissions)
                ELSE RoleObject(rs[k \div 2].context, Len(h) + k - 1)]
        array == ArrayOf([i \in 1..Len(rs) |-> Len(h) + 2 * i])
        placed == Append(h \o objects, array)
    IN [heap |-> placed, ref |-> Len(placed)]

\* The Map PermissionParser(roles) compiles: every field that is a list is
\* an array of its own, made by _populate for the block.
RECURSIVE PlaceMap(_, _, _)
PlaceMap(h, map, i) ==
    IF i > Len(map) THEN [heap |-> h, map |-> map]
    ELSE LET block == map[i].block
             h1 == IF IsArray(block.Read) THEN Append(h, ArrayOf(block.Read.v)) ELSE h
             read == IF IsArray(block.Read) THEN ArrAt(Len(h1)) ELSE block.Read
             h2 == IF IsArray(block.Write) THEN Append(h1, ArrayOf(block.Write.v)) ELSE h1
             write == IF IsArray(block.Write) THEN ArrAt(Len(h2)) ELSE block.Write
         IN PlaceMap(h2, [map EXCEPT ![i].block = [Read |-> read, Write |-> write]], i + 1)

\* The Map as the checks read it.
Load(h, map) ==
    [i \in 1..Len(map) |->
        [key |-> map[i].key,
         block |-> [Read |-> Deref(h, map[i].block.Read),
                    Write |-> Deref(h, map[i].block.Write)]]]

\* unwrap(): a new array of new Permission objects; single() puts the
\* block's own array in resources.
unwrapAt(h, map) ==
    LET entries == unwrap(Load(h, map))
        objects == [i \in 1..Len(entries) |->
                       PermissionObject([entries[i] EXCEPT !.resources =
                                            IF IsArray(@) THEN ArrAt(@.at) ELSE @])]
        array == ArrayOf([i \in 1..Len(entries) |-> Len(h) + i])
        placed == Append(h \o objects, array)
    IN [heap |-> placed, ref |-> Len(placed)]

\* The value of the array of Role objects at an address.
ValueOfRoles(h, ref) ==
    [i \in 1..Len(h[ref].items) |->
        LET role == h[h[ref].items[i]]
        IN [context |-> role.context, permissions |-> h[role.permissions].items]]

\* The value of the array of Permission objects at an address.
ValueOfPermissions(h, ref) ==
    [i \in 1..Len(h[ref].items) |->
        LET entry == h[h[ref].items[i]].entry
        IN [entry EXCEPT !.resources = ValueOfField(h, @)]]

\* The array at an address holds Role objects.
HoldsRoles(h, ref) ==
    Len(h[ref].items) > 0 /\ h[h[ref].items[1]].kind = "role"

\* New Permission objects equal to those at the addresses from the i-th on,
\* each with a new array of resources, and the addresses of the new objects.
RECURSIVE ClonePermissions(_, _, _, _)
ClonePermissions(h, addresses, i, clones) ==
    IF i > Len(addresses) THEN [heap |-> h, items |-> clones]
    ELSE LET entry == h[addresses[i]].entry
             h1 == IF IsArray(entry.resources)
                   THEN Append(h, ArrayOf(h[entry.resources.at].items))
                   ELSE h
             resources == IF IsArray(entry.resources) THEN ArrAt(Len(h1))
                          ELSE entry.resources
             h2 == Append(h1, PermissionObject([entry EXCEPT !.resources = resources]))
         IN ClonePermissions(h2, addresses, i + 1, Append(clones, Len(h2)))

\* structuredClone returning its argument.
structuredCloneShared(h, ref) == [heap |-> h, ref |-> ref]

\* structuredClone(value), for the array at an address: new objects all the
\* way down.
structuredCloneAt(h, ref) ==
    IF HoldsRoles(h, ref) THEN PlaceRoles(h, ValueOfRoles(h, ref))
    ELSE LET cloned == ClonePermissions(h, h[ref].items, 1, <<>>)
             placed == Append(cloned.heap, ArrayOf(cloned.items))
         IN [heap |-> placed, ref |-> Len(placed)]

\* permissions.filter(permission => permission.context === context): a new
\* array of the same objects.
filter(h, ref, context) ==
    LET kept == SelectSeq(h[ref].items, LAMBDA a : h[a].entry.context = context)
        placed == Append(h, ArrayOf(kept))
    IN [heap |-> placed, ref |-> Len(placed)]

\* The get... methods of request.authZ: the heap they leave and the address
\* of what they return.
getPermissionsAt(h, authZ) == structuredCloneAt(h, authZ.permissions)

getGlobalPermissionsAt(h, authZ) ==
    LET filtered == filter(h, authZ.permissions, global)
    IN structuredCloneAt(filtered.heap, filtered.ref)

getLocalPermissionsAt(h, authZ) ==
    LET filtered == filter(h, authZ.permissions, local)
    IN structuredCloneAt(filtered.heap, filtered.ref)

getRolesAt(h, authZ) == structuredCloneAt(h, authZ.roles)

\* request.authZ as the has... methods and getPermissionContext read it.
Loaded(h, authZ) ==
    [authZ EXCEPT !.permissionParser = Load(h, authZ.permissionParser)]

\* What the application may do to the array at an address that a get...
\* method returned: empty it, change the context of a role in it or push a
\* permission string onto the role's permissions, change the write flag or
\* the resources of a permission in it, or push a resource onto the
\* resources of a permission.
MutationsOf(h, ref) ==
    LET held == {h[ref].items[i] : i \in 1..Len(h[ref].items)}
        heldRoles == {a \in held : h[a].kind = "role"}
        heldPermissions == {a \in held : h[a].kind = "permission"}
        withLists == {a \in heldPermissions : IsArray(h[a].entry.resources)}
    IN {[h EXCEPT ![ref].items = <<>>]}
       \union {[h EXCEPT ![a].context = IF @ = local THEN global ELSE local] :
                  a \in heldRoles}
       \union {[h EXCEPT ![h[a].permissions].items =
                            Append(@, PS3(<<"Report">>, <<"Write">>, resources_all))] :
                  a \in heldRoles}
       \union {[h EXCEPT ![a].entry.action.write = ~@] : a \in heldPermissions}
       \union {[h EXCEPT ![a].entry.resources = Str(resources_all)] : a \in heldPermissions}
       \union {[h EXCEPT ![h[a].entry.resources.at].items = Append(@, ResB)] :
                  a \in withLists}

\* The number of get... calls and mutations so far.
Uses == Len(SelectSeq(log, LAMBDA event : event \in {"get", "mutation"}))

\* An AuthZ instance has been made and a request for GET /users with the
\* token of a user has arrived.
InitCopies ==
    /\ InitExpress
    /\ request.method = <<"GET">>
    /\ request.path = <<"/users">>
    /\ \E userId \in UserIds :
        request.headers.authorization = <<"Bearer", " ">> \o sign(userId)

\* instance.middleware(request, response, next), with the objects it makes
\* and holds: the roles of rolesProvider, the Map of PermissionParser(roles)
\* and the array of unwrap().
MiddlewareAt ==
    /\ pc = "middleware"
    /\ LET effect == middleware(options, request, response, Returns(Null))
           authZ == effect.request.authZ
           placedRoles == PlaceRoles(heap, effect.roles)
           placedMap == PlaceMap(placedRoles.heap, effect.permissions, 1)
           unwrapped == unwrapAt(placedMap.heap, placedMap.map)
       IN /\ IF authZ.defined
             THEN /\ request' = [request EXCEPT !.authZ =
                                    AuthZObject(authZ.userId, placedRoles.ref,
                                                placedMap.map, unwrapped.ref)]
                  /\ heap' = unwrapped.heap
             ELSE /\ request' = effect.request
                  /\ heap' = heap
          /\ response' = effect.response
          /\ log' = log \o effect.log
          /\ pc' = effect.pc
          /\ roles' = effect.roles
          /\ permissions' = effect.permissions
    /\ handler' = [name |-> "middleware", permissions |-> <<>>]
    /\ UNCHANGED <<options, called, returned, frame>>

\* The calls of the get... methods by a handler behind the global
\* middleware: returned is the address of the array handed out.
GetPermissionsAt ==
    /\ pc = "route"
    /\ Uses < MaxUses
    /\ LET got == getPermissionsAt(heap, request.authZ)
       IN heap' = got.heap /\ returned' = got.ref
    /\ called' = "getPermissions"
    /\ log' = Append(log, "get")
    /\ UNCHANGED <<roles, permissions, options, request, response, handler, pc, frame>>

GetGlobalPermissionsAt ==
    /\ pc = "route"
    /\ Uses < MaxUses
    /\ LET got == getGlobalPermissionsAt(heap, request.authZ)
       IN heap' = got.heap /\ returned' = got.ref
    /\ called' = "getGlobalPermissions"
    /\ log' = Append(log, "get")
    /\ UNCHANGED <<roles, permissions, options, request, response, handler, pc, frame>>

GetLocalPermissionsAt ==
    /\ pc = "route"
    /\ Uses < MaxUses
    /\ LET got == getLocalPermissionsAt(heap, request.authZ)
       IN heap' = got.heap /\ returned' = got.ref
    /\ called' = "getLocalPermissions"
    /\ log' = Append(log, "get")
    /\ UNCHANGED <<roles, permissions, options, request, response, handler, pc, frame>>

GetRolesAt ==
    /\ pc = "route"
    /\ Uses < MaxUses
    /\ LET got == getRolesAt(heap, request.authZ)
       IN heap' = got.heap /\ returned' = got.ref
    /\ called' = "getRoles"
    /\ log' = Append(log, "get")
    /\ UNCHANGED <<roles, permissions, options, request, response, handler, pc, frame>>

\* The handler changes what the last get... method returned.
Mutate ==
    /\ pc = "route"
    /\ Uses < MaxUses
    /\ called \in {"getPermissions", "getGlobalPermissions", "getLocalPermissions",
                   "getRoles"}
    /\ heap' \in MutationsOf(heap, returned)
    /\ log' = Append(log, "mutation")
    /\ UNCHANGED <<roles, permissions, called, returned, options, request, response,
                   handler, pc, frame>>

NextCopies ==
    \/ MiddlewareAt
    \/ GetPermissionsAt
    \/ GetGlobalPermissionsAt
    \/ GetLocalPermissionsAt
    \/ GetRolesAt
    \/ Mutate

SpecCopies == InitCopies /\ [][NextCopies]_vars

(***************************************************************************)
(* Vocabulary of the properties.                                           *)
(***************************************************************************)
\* The compiled map holds a block for (context c, scope s).
HasBlock(c, s) == MapHas(permissions, _key(c, s))

\* The field of action a of the block of (c, s), which exists.
FieldOf(c, s, a) == Field(MapGet(permissions, _key(c, s)), a)

IsALL(f) == IsString(f, resources_all)

IsDEFAULT(f) == IsString(f, resources_default)

\* The resource identifiers of a specific list.
Elements(f) == {f.v[i] : i \in 1..Len(f.v)}

\* The query 's.a.r'; the resource segment is left out for r = NoSegment.
NoSegment == <<"\\omitted">>

Query(s, a, r) == IF r = NoSegment THEN PS2(s, a) ELSE PS3(s, a, r)

\* The resource a query asks for.
Asked(r) == IF r = NoSegment THEN resources_default ELSE r

\* The resource segments of the queries, the omitted one included.
QuerySegments == QueryResources \union {NoSegment}

\* The context-restricted checks, by context.
CheckIn(c, map, p) == IF c = local THEN checkLocal(map, p) ELSE checkGlobal(map, p)

CheckActionIn(c, map, p) ==
    IF c = local THEN checkActionLocal(map, p) ELSE checkActionGlobal(map, p)

ReadOrWrite == {<<"Read">>, <<"Write">>}

\* PermissionParser(roles) has returned and no method has been called yet.
\* No method changes roles or the compiled map, so each role list is judged
\* once, in this state.
Built == called = "PermissionParser"

(***************************************************************************)
(* C1-C3: the full match rule.                                             *)
(***************************************************************************)
\* C1: when the compiled field of (c, s) for Read or Write is the DEFAULT
\* marker, checkLocal / checkGlobal of 's.a.r' returns true only for a query
\* whose resource is DEFAULT (segment omitted or the default token), and
\* false for every explicit resource.
C1_DefaultFieldMatchesOnlyDefault ==
    \A c \in Contexts, s \in QueryScopes, a \in ReadOrWrite, r \in QuerySegments :
        (HasBlock(c, s) /\ IsDEFAULT(FieldOf(c, s, a)))
            => (CheckIn(c, permissions, Query(s, a, r)) => Asked(r) = resources_default)

\* Some role grants 'All' for (c, s, a) in the role list rs.
GrantsAll(rs, c, s, a) ==
    \E i \in 1..Len(rs) : \E j \in 1..Len(rs[i].permissions) :
        LET parsed == _parsePermission(rs[i].permissions[j])
        IN /\ rs[i].context = c
           /\ parsed[1] = s
           /\ Includes(allowedValues, parsed[2])
           /\ Includes(ExpandAction(parsed[2]), a)
           /\ parsed[3] = resources_all

\* The permutations of 1..n, and a sequence reordered by one.
IndexOrders(n) == {f \in [1..n -> 1..n] : \A i, j \in 1..n : f[i] = f[j] => i = j}

Permuted(rs, f) == [i \in 1..Len(rs) |-> rs[f[i]]]

\* C2: when some role grants ALL for (context, scope, action), every
\* permutation of the role list compiles the field of that triple to ALL.
C2_AllAbsorbsUnderReordering ==
    \A c \in Contexts, s \in QueryScopes, a \in ReadOrWrite :
        GrantsAll(roles, c, s, a) =>
            \A f \in IndexOrders(Len(roles)) :
                LET map == _populate(Permuted(roles, f))
                IN /\ MapHas(map, _key(c, s))
                   /\ IsALL(Field(MapGet(map, _key(c, s)), a))

\* C3: checkLocal / checkGlobal of 's.a.r' is false without a block for
\* (c, s), true when the field of a is ALL, and for a specific list true
\* exactly when r is an element of it; a ReadWrite query is true exactly
\* when the Read query and the Write query are both true.
C3_FullMatchAllAndSpecific ==
    Built => \A c \in Contexts, s \in QueryScopes, r \in QuerySegments :
        /\ \A a \in ReadOrWrite :
            /\ ~HasBlock(c, s) => ~CheckIn(c, permissions, Query(s, a, r))
            /\ (HasBlock(c, s) /\ IsALL(FieldOf(c, s, a)))
                   => CheckIn(c, permissions, Query(s, a, r))
            /\ (HasBlock(c, s) /\ IsArray(FieldOf(c, s, a)))
                   => (CheckIn(c, permissions, Query(s, a, r))
                          <=> Asked(r) \in Elements(FieldOf(c, s, a)))
        /\ ~HasBlock(c, s) => ~CheckIn(c, permissions, Query(s, <<"ReadWrite">>, r))
        /\ CheckIn(c, permissions, Query(s, <<"ReadWrite">>, r))
               <=> (/\ CheckIn(c, permissions, Query(s, <<"Read">>, r))
                    /\ CheckIn(c, permissions, Query(s, <<"Write">>, r)))

\* checkLocal('User.Read.A') has returned true on a specific Read list that
\* holds A and not B, beside a Write list.
C3_Witness ==
    /\ called = "checkLocal"
    /\ returned = TRUE
    /\ HasBlock(local, <<"User">>)
    /\ IsArray(FieldOf(local, <<"User">>, <<"Read">>))
    /\ Elements(FieldOf(local, <<"User">>, <<"Read">>)) = {ResA}
    /\ IsArray(FieldOf(local, <<"User">>, <<"Write">>))
    /\ ~checkLocal(permissions, PS3(<<"User">>, <<"Read">>, ResB))
    /\ ~HasBlock(global, <<"User">>)

(***************************************************************************)
(* C4-C6: contexts and the action-only match.                              *)
(***************************************************************************)
\* The roles of context c of a role list, in their order.
RolesOfContext(rs, c) == SelectSeq(rs, LAMBDA role : role.context = c)

\* C4: checkGlobal and checkActionGlobal answer as they do for the global
\* roles of the list alone, and checkLocal and checkActionLocal as for the
\* local roles alone: two role lists with the same roles of a context, in
\* the same order, get the same answers in that context, whatever their
\* roles of the other context are.
C4_ContextIsolation ==
    Built => \A c \in Contexts :
        LET alone == _populate(RolesOfContext(roles, c))
        IN \A p \in QueryStrings :
            /\ CheckIn(c, permissions, p) = CheckIn(c, alone, p)
            /\ CheckActionIn(c, permissions, p) = CheckActionIn(c, alone, p)

\* checkGlobal('User.Read.A') has returned false for a role list that grants
\* it under context local only, where checkLocal is true.
C4_Witness ==
    /\ called = "checkGlobal"
    /\ returned = FALSE
    /\ HasBlock(local, <<"User">>)
    /\ HasBlock(global, <<"Report">>)
    /\ ~HasBlock(global, <<"User">>)
    /\ checkLocal(permissions, PS3(<<"User">>, <<"Read">>, ResA))
    /\ ~checkGlobal(permissions, PS3(<<"User">>, <<"Read">>, ResA))

\* C5: check(p) = checkLocal(p) OR checkGlobal(p) and checkAction(p) =
\* checkActionLocal(p) OR checkActionGlobal(p); a ReadWrite query is not
\* satisfied by Read held in one context only and Write in the other only.
C5_UnscopedIsDisjunction ==
    Built =>
    /\ \A p \in QueryStrings :
        /\ check(permissions, p)
               = (checkLocal(permissions, p) \/ checkGlobal(permissions, p))
        /\ checkAction(permissions, p)
               = (checkActionLocal(permissions, p) \/ checkActionGlobal(permissions, p))
    /\ \A c1, c2 \in Contexts, s \in QueryScopes, r \in QuerySegments :
        (/\ c1 # c2
         /\ CheckIn(c1, permissions, Query(s, <<"Read">>, r))
         /\ ~CheckIn(c2, permissions, Query(s, <<"Read">>, r))
         /\ CheckIn(c2, permissions, Query(s, <<"Write">>, r))
         /\ ~CheckIn(c1, permissions, Query(s, <<"Write">>, r)))
            => /\ ~check(permissions, Query(s, <<"ReadWrite">>, r))
               /\ check(permissions, Query(s, <<"Read">>, r))
               /\ check(permissions, Query(s, <<"Write">>, r))

\* check has returned false for the ReadWrite query while Read on A is held
\* in context local only and Write on A in context global only.
C5_Witness ==
    /\ called = "check"
    /\ returned = FALSE
    /\ checkLocal(permissions, PS3(<<"User">>, <<"Read">>, ResA))
    /\ ~checkGlobal(permissions, PS3(<<"User">>, <<"Read">>, ResA))
    /\ checkGlobal(permissions, PS3(<<"User">>, <<"Write">>, ResA))
    /\ ~checkLocal(permissions, PS3(<<"User">>, <<"Write">>, ResA))
    /\ check(permissions, PS3(<<"User">>, <<"Read">>, ResA))

\* The actions a query may name: the allowed ones and one that is not.
AnyAction == QueryActions \union {<<"Delete">>}

\* Block (c, s) exists and every action that a expands to has a field that
\* is ALL, DEFAULT or a non-empty specific list.
HoldsAction(c, s, a) ==
    /\ HasBlock(c, s)
    /\ \A e \in (IF a = <<"ReadWrite">> THEN ReadOrWrite ELSE {a}) :
        /\ e \in ReadOrWrite
        /\ \/ IsALL(FieldOf(c, s, e))
           \/ IsDEFAULT(FieldOf(c, s, e))
           \/ IsArray(FieldOf(c, s, e)) /\ Elements(FieldOf(c, s, e)) # {}

\* C6: checkActionLocal / checkActionGlobal of 's.a[.r]' is true exactly
\* when block (c, s) exists and every action a expands to has a field that
\* is ALL, DEFAULT or a non-empty list, whatever the resource segment r is.
C6_ActionOnlyMatch ==
    Built => \A c \in Contexts, s \in QueryScopes, a \in AnyAction, r \in QuerySegments :
        CheckActionIn(c, permissions, Query(s, a, r)) = HoldsAction(c, s, a)

\* checkActionLocal('User.ReadWrite') has returned true on a block whose
\* Read field is a specific list and whose Write field is DEFAULT, where
\* the full check of Read on B fails.
C6_Witness ==
    /\ called = "checkActionLocal"
    /\ returned = TRUE
    /\ HasBlock(local, <<"User">>)
    /\ IsArray(FieldOf(local, <<"User">>, <<"Read">>))
    /\ IsDEFAULT(FieldOf(local, <<"User">>, <<"Write">>))
    /\ checkActionLocal(permissions, PS2(<<"User">>, <<"ReadWrite">>))
    /\ ~checkLocal(permissions, PS3(<<"User">>, <<"Read">>, ResB))
    /\ checkActionLocal(permissions, PS3(<<"User">>, <<"Read">>, ResB))

(***************************************************************************)
(* C7-C8: unwrap() and the collapse of a block.                            *)
(***************************************************************************)
\* The resource state of a field: ALL, DEFAULT, or the set of a list.
StateOf(f) ==
    IF IsALL(f) THEN <<"ALL", {}>>
    ELSE IF IsDEFAULT(f) THEN <<"DEFAULT", {}>>
    ELSE <<"SPECIFIC", Elements(f)>>

\* The lattice of the resource states: ALL subsumes everything, DEFAULT
\* subsumes DEFAULT only, a specific set subsumes its subsets.
Subsumes(x, y) ==
    \/ IsALL(x)
    \/ IsDEFAULT(x) /\ IsDEFAULT(y)
    \/ IsArray(x) /\ IsArray(y) /\ Elements(y) \subseteq Elements(x)

\* A field that grants something: a marker or a non-empty list.
NonEmpty(f) == IsALL(f) \/ IsDEFAULT(f) \/ Elements(f) # {}

\* The entries of unwrap() that carry context c and scope s.
EntriesOf(c, s) ==
    SelectSeq(unwrap(permissions), LAMBDA e : e.context = c /\ e.scope = s)

\* C7: in every entry unwrap() emits for a block whose Read and Write states
\* differ, the flag of the other action is true only if the other action's
\* state subsumes the entry's state (Read = ALL with Write = DEFAULT yields
\* no entry with write = true and resources = ALL).
C7_CrossFlagSound ==
    Built => \A c \in Contexts, s \in QueryScopes :
        (HasBlock(c, s)
         /\ StateOf(FieldOf(c, s, <<"Read">>)) # StateOf(FieldOf(c, s, <<"Write">>)))
            => \A i \in 1..Len(EntriesOf(c, s)) :
                LET e == EntriesOf(c, s)[i]
                    Read == FieldOf(c, s, <<"Read">>)
                    Write == FieldOf(c, s, <<"Write">>)
                IN /\ (e.resources = Read /\ e.action.write) => Subsumes(Write, Read)
                   /\ (e.resources = Write /\ e.action.read) => Subsumes(Read, Write)

\* C8: unwrap() emits for a block exactly one entry, with both flags true,
\* when Read and Write hold the same resource state, and otherwise exactly
\* one entry for each action whose field is non-empty: one or two entries.
C8_EntryCount ==
    Built => \A c \in Contexts, s \in QueryScopes :
        HasBlock(c, s) =>
            LET es == EntriesOf(c, s)
                Read == FieldOf(c, s, <<"Read">>)
                Write == FieldOf(c, s, <<"Write">>)
            IN /\ Len(es) \in 1..2
               /\ IF StateOf(Read) = StateOf(Write)
                  THEN Len(es) = 1 /\ es[1].action.read /\ es[1].action.write
                  ELSE Len(es) = (IF NonEmpty(Read) THEN 1 ELSE 0)
                                 + (IF NonEmpty(Write) THEN 1 ELSE 0)

(***************************************************************************)
(* C9-C10: the population of the map.                                      *)
(***************************************************************************)
\* The permission strings of a role list, parsed, each with its context.
RECURSIVE Grants(_)
Grants(rs) ==
    IF rs = <<>> THEN <<>>
    ELSE [j \in 1..Len(rs[1].permissions) |->
             [context |-> rs[1].context,
              parsed |-> _parsePermission(rs[1].permissions[j])]]
         \o Grants(Tail(rs))

\* The resources the role list grants for (c, s, a), in the order of the
\* grants.
GrantedResources(rs, c, s, a) ==
    LET granted == SelectSeq(Grants(rs),
                             LAMBDA g : /\ g.context = c
                                        /\ g.parsed[1] = s
                                        /\ g.parsed[2] \in {a, <<"ReadWrite">>})
    IN [i \in 1..Len(granted) |-> granted[i].parsed[3]]

\* C9: when exactly 'Scope.Read.A' and 'Scope.Read.B' are granted for a
\* scope and Read in a context, by one role or by two, the compiled Read
\* field is the specific set {A, B}; with 'Scope.Read.All' granted after
\* them it is ALL.
C9_MergeCorrectness ==
    Built => \A c \in Contexts, s \in QueryScopes :
        LET granted == GrantedResources(roles, c, s, <<"Read">>)
        IN /\ granted \in {<<ResA, ResB>>, <<ResB, ResA>>}
               => /\ HasBlock(c, s)
                  /\ IsArray(FieldOf(c, s, <<"Read">>))
                  /\ Elements(FieldOf(c, s, <<"Read">>)) = {ResA, ResB}
                  /\ Len(FieldOf(c, s, <<"Read">>).v) = 2
           /\ granted \in {<<ResA, ResB, resources_all>>, <<ResB, ResA, resources_all>>}
               => /\ HasBlock(c, s)
                  /\ IsALL(FieldOf(c, s, <<"Read">>))

\* A and B are granted for Read by one local role and All by a later one,
\* and checkLocal('User.Read.A') has returned true.
C9_Witness ==
    /\ called = "checkLocal"
    /\ returned = TRUE
    /\ Len(roles) = 2
    /\ Len(roles[1].permissions) = 2
    /\ GrantedResources(roles, local, <<"User">>, <<"Read">>)
           = <<ResA, ResB, resources_all>>
    /\ IsALL(FieldOf(local, <<"User">>, <<"Read">>))

\* array.join(separator)
RECURSIVE Join(_, _)
Join(parts, sep) ==
    IF Len(parts) = 0 THEN <<>>
    ELSE IF Len(parts) = 1 THEN parts[1]
    ELSE parts[1] \o sep \o Join(Tail(parts), sep)

\* The permission string p with its action segment replaced by a.
WithAction(p, a) == Join([Split(p, <<".">>) EXCEPT ![2] = a], <<".">>)

\* The role list with string j of role i, a ReadWrite grant, replaced by
\* the Read grant and the Write grant of the same scope and resource.
ReadWriteSplit(rs, i, j) ==
    [rs EXCEPT ![i].permissions =
        SubSeq(@, 1, j - 1)
        \o <<WithAction(@[j], <<"Read">>), WithAction(@[j], <<"Write">>)>>
        \o SubSeq(@, j + 1, Len(@))]

\* C10: replacing a permission string 'S.ReadWrite.X' of a role by the two
\* consecutive strings 'S.Read.X' and 'S.Write.X' yields the same compiled
\* state, hence the same unwrap() output and the same answers.
C10_ReadWriteEquivalence ==
    Built => \A i \in 1..Len(roles) : \A j \in 1..Len(roles[i].permissions) :
        _parsePermission(roles[i].permissions[j])[2] = <<"ReadWrite">>
            => LET split == _populate(ReadWriteSplit(roles, i, j))
               IN /\ split = permissions
                  /\ unwrap(split) = unwrap(permissions)
                  /\ \A p \in ActionQueries :
                      /\ check(split, p) = check(permissions, p)
                      /\ checkAction(split, p) = checkAction(permissions, p)
                      /\ checkContext(split, p) = checkContext(permissions, p)

\* unwrap() has returned what it returns for the role list with the
\* resource-less 'User.ReadWrite' of a role that grants other strings
\* replaced by 'User.Read' and 'User.Write'.
C10_Witness ==
    /\ called = "unwrap"
    /\ Len(roles) = 2
    /\ Len(roles[1].permissions) = 2
    /\ roles[1].permissions[2] = PS2(<<"User">>, <<"ReadWrite">>)
    /\ roles[1].permissions[1] = PS3(<<"User">>, <<"ReadWrite">>, resources_all)
    /\ ReadWriteSplit(roles, 1, 2)[1].permissions
           = <<PS3(<<"User">>, <<"ReadWrite">>, resources_all),
               PS2(<<"User">>, <<"Read">>), PS2(<<"User">>, <<"Write">>)>>
    /\ returned = unwrap(_populate(ReadWriteSplit(roles, 1, 2)))
    /\ Len(returned) = 1

(***************************************************************************)
(* C11: permission strings with an action that is not allowed.             *)
(***************************************************************************)
\* The action segment of the permission string is Read, Write or ReadWrite.
HasAllowedAction(p) == Includes(allowedValues, Nth(Split(p, <<".">>), 2))

\* The role list with the strings of a not allowed action taken out.
WithoutInvalid(rs) ==
    [i \in 1..Len(rs) |->
        [rs[i] EXCEPT !.permissions = SelectSeq(@, HasAllowedAction)]]

\* Some role of context c grants scope s with an allowed action.
GrantsScope(rs, c, s) ==
    \E i \in 1..Len(rs) : \E j \in 1..Len(rs[i].permissions) :
        /\ rs[i].context = c
        /\ HasAllowedAction(rs[i].permissions[j])
        /\ Nth(Split(rs[i].permissions[j], <<".">>), 1) = s

\* C11: a permission string whose action segment is not Read, Write or
\* ReadWrite (or is missing) leaves the compiled state as if the string
\* were absent: the map is the one of the role list without such strings,
\* no block exists for a (context, scope) no valid string grants, and
\* checkContext is 'none' for a scope granted through such strings only.
C11_InvalidActionSkipped ==
    Built =>
    /\ permissions = _populate(WithoutInvalid(roles))
    /\ \A c \in Contexts, s \in QueryScopes :
        ~GrantsScope(roles, c, s) => ~HasBlock(c, s)
    /\ \A s \in QueryScopes :
        (\A c \in Contexts : ~GrantsScope(roles, c, s))
            => checkContext(permissions, PS3(s, <<"Read">>, ResA)) = <<"none">>

\* checkLocal('User.Read.A') has returned true for a role that lists
\* 'Report.Delete.A' and the action-less 'User' before 'User.Read.A', and
\* no block exists for Report.
C11_Witness ==
    /\ called = "checkLocal"
    /\ returned = TRUE
    /\ Len(roles) = 1
    /\ roles[1].context = local
    /\ roles[1].permissions
           = <<PS3(<<"Report">>, <<"Delete">>, ResA), <<"User">>,
               PS3(<<"User">>, <<"Read">>, ResA)>>
    /\ ~HasBlock(local, <<"Report">>)
    /\ checkContext(permissions, PS2(<<"Report">>, <<"Delete">>)) = <<"none">>
    /\ FieldOf(local, <<"User">>, <<"Read">>) = Arr(<<ResA>>)

(***************************************************************************)
(* C12: checkContext.                                                      *)
(***************************************************************************)
\* The permission strings of scope s: the scope alone, and the scope with
\* every action and resource segment of the queries.
StringsOfScope(s) ==
    {s} \union {Query(s, a, r) : a \in AnyAction, r \in QuerySegments}

\* C12: checkContext(p), for p of scope s whatever its action and resource,
\* returns 'both' iff blocks exist for (local, s) and (global, s), 'none'
\* iff neither exists, 'local' iff only the local one exists and 'global'
\* iff only the global one exists.
C12_CheckContextClassification ==
    Built => \A s \in QueryScopes : \A p \in StringsOfScope(s) :
        LET answer == checkContext(permissions, p)
        IN /\ answer = <<"both">> <=> (HasBlock(local, s) /\ HasBlock(global, s))
           /\ answer = <<"none">> <=> (~HasBlock(local, s) /\ ~HasBlock(global, s))
           /\ answer = local <=> (HasBlock(local, s) /\ ~HasBlock(global, s))
           /\ answer = global <=> (~HasBlock(local, s) /\ HasBlock(global, s))

\* checkContext has returned 'both' for User, granted by a local and by a
\* global role, while Report is granted by the global role only.
C12_Witness ==
    /\ called = "checkContext"
    /\ returned = <<"both">>
    /\ GrantsScope(roles, local, <<"User">>)
    /\ GrantsScope(roles, global, <<"User">>)
    /\ GrantsScope(roles, global, <<"Report">>)
    /\ ~GrantsScope(roles, local, <<"Report">>)
    /\ checkContext(permissions, <<"Report">>) = global

(***************************************************************************)
(* C13: the keys of the map.                                               *)
(***************************************************************************)
\* Scope strings a permission string can carry: none holds a '.'.
KeyScopes == {<<"User">>, <<"Report">>, <<"a">>, ScopeWithGlue}

\* C13: _key is injective on (context, scope) and _unKey reverses it, for
\* every scope string without '.'; every entry of unwrap() carries the
\* context and the whole scope string of a valid grant of the role list.
C13_KeyReversible ==
    Built =>
    /\ \A c1, c2 \in Contexts, s1, s2 \in KeyScopes :
        _key(c1, s1) = _key(c2, s2) => (c1 = c2 /\ s1 = s2)
    /\ \A c \in Contexts, s \in KeyScopes : _unKey(_key(c, s)) = <<c, s>>
    /\ \A i \in 1..Len(unwrap(permissions)) :
        GrantsScope(roles, unwrap(permissions)[i].context, unwrap(permissions)[i].scope)

(***************************************************************************)
(* C14: resources granted more than once.                                  *)
(***************************************************************************)
\* The role list with string j of role i granted once more, right after
\* itself.
GrantedTwice(rs, i, j) ==
    [rs EXCEPT ![i].permissions = SubSeq(@, 1, j) \o <<@[j]>> \o SubSeq(@, j + 1, Len(@))]

\* C14: a compiled Read or Write field that is a specific list holds each
\* resource identifier at most once, and granting a permission string a
\* second time yields the same compiled state and the same unwrap() output
\* as granting it once.
C14_DuplicatesSuppressed ==
    Built =>
    /\ \A c \in Contexts, s \in QueryScopes, a \in ReadOrWrite :
        (HasBlock(c, s) /\ IsArray(FieldOf(c, s, a)))
            => Len(FieldOf(c, s, a).v) = Cardinality(Elements(FieldOf(c, s, a)))
    /\ \A i \in 1..Len(roles) : \A j \in 1..Len(roles[i].permissions) :
        /\ _populate(GrantedTwice(roles, i, j)) = permissions
        /\ unwrap(_populate(GrantedTwice(roles, i, j))) = unwrap(permissions)

(***************************************************************************)
(* C15: queries that lack a scope or an action segment.                    *)
(***************************************************************************)
\* 'User' (no action segment), '' and '.Read' (no scope), 'User.' (an
\* empty action segment).
MalformedQueries ==
    {<<"User">>, <<>>, <<".", "Read">>, <<"User", ".">>}

\* C15: check, checkLocal, checkGlobal, checkAction, checkActionLocal and
\* checkActionGlobal, called with a permission string that lacks a scope or
\* an action segment, do not end in a boolean result: their outcome is an
\* error, which differs from the answer false.
C15_MalformedQueryIsError ==
    Built => \A p \in MalformedQueries :
        /\ check(permissions, p) \notin BOOLEAN
        /\ checkLocal(permissions, p) \notin BOOLEAN
        /\ checkGlobal(permissions, p) \notin BOOLEAN
        /\ checkAction(permissions, p) \notin BOOLEAN
        /\ checkActionLocal(permissions, p) \notin BOOLEAN
        /\ checkActionGlobal(permissions, p) \notin BOOLEAN

(***************************************************************************)
(* C16: the order of the entries of unwrap().                              *)
(***************************************************************************)
\* The sequence without the elements that occur earlier in it.
RECURSIVE FirstOccurrences(_)
FirstOccurrences(seq) ==
    IF seq = <<>> THEN <<>>
    ELSE LET front == FirstOccurrences(SubSeq(seq, 1, Len(seq) - 1))
         IN IF Includes(front, seq[Len(seq)]) THEN front
            ELSE Append(front, seq[Len(seq)])

\* The (context, scope) pairs of the role list in the order in which each
\* first receives a grant with an allowed action, scanning the roles and
\* their permission strings in sequence.
FirstGranted(rs) ==
    LET valid == SelectSeq(Grants(rs), LAMBDA g : Includes(allowedValues, g.parsed[2]))
    IN FirstOccurrences([i \in 1..Len(valid) |-> <<valid[i].context, valid[i].parsed[1]>>])

\* The (context, scope) pair of each entry of a list of entries.
PairsOf(es) == [i \in 1..Len(es) |-> <<es[i].context, es[i].scope>>]

\* C16: the entries of unwrap() come block by block, the blocks in the
\* order in which their (context, scope) first received a valid grant, and
\* when a block yields two entries the one derived from Read precedes the
\* one derived from Write.
C16_UnwrapOrder ==
    Built =>
    LET es == unwrap(permissions)
    IN /\ FirstOccurrences(PairsOf(es)) = FirstGranted(roles)
       /\ \A i, j, k \in 1..Len(es) :
           (i < j /\ j < k /\ PairsOf(es)[i] = PairsOf(es)[k])
               => PairsOf(es)[j] = PairsOf(es)[i]
       /\ \A i \in 1..(Len(es) - 1) :
           PairsOf(es)[i] = PairsOf(es)[i + 1]
               => /\ es[i].resources = FieldOf(es[i].context, es[i].scope, <<"Read">>)
                  /\ es[i].action.read
                  /\ es[i + 1].resources = FieldOf(es[i].context, es[i].scope, <<"Write">>)
                  /\ es[i + 1].action.write

\* unwrap() has returned three entries for a local role granting
\* 'User.Write.A' followed by a local role granting 'Report.Read.All' and
\* 'Report.ReadWrite.A': User first, then the All entry of Report, then its
\* ['A'] entry.
C16_Witness ==
    /\ called = "unwrap"
    /\ Len(roles) = 2
    /\ roles[1].permissions = <<PS3(<<"User">>, <<"Write">>, ResA)>>
    /\ roles[2].permissions = <<PS3(<<"Report">>, <<"Read">>, resources_all),
                                PS3(<<"Report">>, <<"ReadWrite">>, ResA)>>
    /\ roles[1].context = local
    /\ roles[2].context = local
    /\ Len(returned) = 3
    /\ returned[1].scope = <<"User">>
    /\ returned[2] = single(local, <<"Report">>, TRUE, FALSE, Str(resources_all))
    /\ returned[3] = single(local, <<"Report">>, TRUE, TRUE, Arr(<<ResA>>))

(***************************************************************************)
(* C17: role lists that grant nothing.                                     *)
(***************************************************************************)
\* The role list is empty or each of its roles has no permission string.
GrantsNothing(rs) == \A i \in 1..Len(rs) : rs[i].permissions = <<>>

\* C17: for a role list that is empty or whose roles all have an empty
\* permission list, unwrap() returns the empty list and check, checkLocal,
\* checkGlobal, checkAction, checkActionLocal and checkActionGlobal return
\* false for every permission string of a scope, an action and an optional
\* resource.
C17_EmptyInput ==
    GrantsNothing(roles) =>
        /\ unwrap(permissions) = <<>>
        /\ called = "unwrap" => returned = <<>>
        /\ called \in {"check", "checkLocal", "checkGlobal", "checkAction",
                        "checkActionLocal", "checkActionGlobal"} => returned = FALSE
        /\ \A p \in QueryStrings :
            /\ ~check(permissions, p)
            /\ ~checkLocal(permissions, p)
            /\ ~checkGlobal(permissions, p)
            /\ ~checkAction(permissions, p)
            /\ ~checkActionLocal(permissions, p)
            /\ ~checkActionGlobal(permissions, p)

\* unwrap() has returned the empty list for a list of a local and a global
\* role that both have no permission string.
C17_Witness ==
    /\ called = "unwrap"
    /\ returned = <<>>
    /\ Len(roles) = 2
    /\ roles[1] = [context |-> local, permissions |-> <<>>]
    /\ roles[2] = [context |-> global, permissions |-> <<>>]

(***************************************************************************)
(* C18-C20: the middlewares.                                               *)
(***************************************************************************)
\* The check of the PermissionParser that corresponds to a route middleware.
CorrespondingCheck(name, map, p) ==
    CASE name = "withPermissions" -> check(map, p)
      [] name = "withGlobalPermissions" -> checkGlobal(map, p)
      [] name = "withLocalPermissions" -> checkLocal(map, p)
      [] name = "withActions" -> checkAction(map, p)
      [] name = "withGlobalActions" -> checkActionGlobal(map, p)
      [] name = "withLocalActions" -> checkActionLocal(map, p)

RouteMiddlewares ==
    {"withPermissions", "withGlobalPermissions", "withLocalPermissions",
     "withActions", "withGlobalActions", "withLocalActions"}

\* The response of a denied request.
Forbidden ==
    [statusCode |-> 403,
     body |-> [error |-> <<"You don't have permissions to access this resource.">>],
     sent |-> 1]

\* C18: a route middleware called with a request that carries authZ calls
\* next() exactly once and sends no response when every permission it was
\* made with passes the corresponding check of the PermissionParser built
\* over the user's roles, and otherwise responds with status 403 and the
\* body {error: "You don't have permissions to access this resource."}
\* without calling next().
C18_RouteMiddlewareDecides ==
    [][(/\ pc \in {"middleware", "route"}
        /\ log' # log
        /\ handler'.name \in RouteMiddlewares
        /\ request.authZ.defined)
          => IF \A i \in 1..Len(handler'.permissions) :
                    CorrespondingCheck(handler'.name, _populate(roles),
                                       handler'.permissions[i])
             THEN /\ log' = Append(log, "next")
                  /\ response' = response
             ELSE /\ log' = Append(log, "response")
                  /\ response' = Forbidden]_vars

\* withGlobalPermissions('User.Read.A') has answered 403 to a user who
\* holds 'User.Read.A' in the local context only, after the global
\* middleware had called next().
C18_Witness ==
    /\ pc = "end"
    /\ handler = [name |-> "withGlobalPermissions",
                  permissions |-> <<PS3(<<"User">>, <<"Read">>, ResA)>>]
    /\ log = <<"rolesProvider", "authZ", "next", "response">>
    /\ response = Forbidden
    /\ checkLocal(permissions, PS3(<<"User">>, <<"Read">>, ResA))
    /\ roles = MixedUser

\* The request is for the authentication endpoint: POST /authenticate.
ToAuthenticationEndpoint(req) ==
    requestKind(req.method, req.baseUrl \o req.path) = <<"POST", " ", "/authenticate">>

\* The request is for the IAM endpoint, GET /authz/iam, which is enabled.
ToIamEndpoint(opts, req) ==
    /\ opts.authorization.iamEndpoint.is # "null"
    /\ requestKind(req.method, req.baseUrl \o req.path) = <<"GET", " ", "/authz/iam">>

\* The Authorization header is 'Bearer ' followed by the token of a user.
HasValidToken(req) ==
    \E userId \in UserIds : req.headers.authorization = <<"Bearer", " ">> \o sign(userId)

\* The user identifier of a valid token.
TokenUser(req) ==
    CHOOSE userId \in UserIds : req.headers.authorization = <<"Bearer", " ">> \o sign(userId)

\* The message of the error of a failed validation.
FailureMessage(req) ==
    IF req.headers.authorization = Undefined THEN <<"Missing authorization header">>
    ELSE IF req.headers.authorization[1] # "Bearer" THEN <<"Invalid authorization type">>
    ELSE verify(SubSeq(req.headers.authorization, 3, Len(req.headers.authorization))).message

\* The global middleware is the middleware that ran last.
AfterMiddleware == pc # "PermissionParser" /\ handler.name = "middleware"

\* C19: for a request that is not for the authentication endpoint and has
\* no Authorization header, one of a type other than 'Bearer' or a token
\* that does not verify, the global middleware responds with status 401
\* and the body {error: 'Authentication error: ' + message}, does not call
\* next(), does not call rolesProvider and does not set request.authZ.
C19_FailedValidationStops ==
    (AfterMiddleware /\ ~ToAuthenticationEndpoint(request) /\ ~HasValidToken(request))
        => /\ response = [statusCode |-> 401,
                          body |-> [error |-> <<"Authentication error: ">>
                                                 \o FailureMessage(request)],
                          sent |-> 1]
           /\ log = <<"response">>
           /\ ~request.authZ.defined
           /\ pc = "end"

\* The global middleware has answered 401 'Authentication error: Invalid
\* authorization type' to a request for the IAM endpoint that carries the
\* token of alice under the type Basic.
C19_Witness ==
    /\ AfterMiddleware
    /\ request.headers.authorization = <<"Basic", " ">> \o sign(alice)
    /\ ToIamEndpoint(options, request)
    /\ response.statusCode = 401
    /\ response.body = [error |-> <<"Authentication error: ", "Invalid authorization type">>]
    /\ log = <<"response">>

IamRequest(req) ==
    requestKind(req.method, req.baseUrl \o req.path) = <<"GET", " ", "/authz/iam">>

Issued(userId, seconds) ==
    [statusCode |-> 200,
     body |-> [token |-> sign(userId), expiresIn |-> seconds],
     sent |-> 1]

\* The response of a refused authentication.
Refused(message) ==
    [statusCode |-> 401, body |-> [error |-> message], sent |-> 1]

\* C22: a request for the authentication endpoint is handled whatever its
\* Authorization header is and next() is not called; when userIdentifier
\* returns null the response is 401 {error: 'Invalid user'}, when it throws
\* 401 {error: 'Invalid user: ' + message}, and otherwise {token, expiresIn}
\* with expiresIn the configured expiration time span in whole seconds.
C22_AuthenticationOutcomes ==
    (AfterMiddleware /\ ToAuthenticationEndpoint(request))
        => /\ called = "userIdentifier"
           /\ log = <<"userIdentifier", "response">>
           /\ pc = "end"
           /\ ~request.authZ.defined
           /\ response =
                 IF returned.threw THEN Refused(<<"Invalid user: ">> \o returned.message)
                 ELSE IF returned.userId = Null THEN Refused(<<"Invalid user">>)
                 ELSE Issued(returned.userId,
                             round(options.authentication.expirationTimeSpan))

(***************************************************************************)
(* C23: the get... methods return copies.                                  *)
(***************************************************************************)
\* C23: whatever the application did to the values getPermissions,
\* getLocalPermissions, getGlobalPermissions and getRoles returned, the
\* resources array of a returned permission included, the next call of each
\* get... method returns what it returned at first, the permissions and the
\* roles of the user rolesProvider gave, and each has... method and
\* getPermissionContext answers as on the map compiled from those roles.
C23_GettersReturnCopies ==
    (pc = "route" /\ request.authZ.defined)
        => LET given == options.authorization.rolesProvider[TokenUser(request)].roles
               map == _populate(given)
               authZ == request.authZ
               read == Loaded(heap, authZ)
               gotPermissions == getPermissionsAt(heap, authZ)
               gotLocal == getLocalPermissionsAt(heap, authZ)
               gotGlobal == getGlobalPermissionsAt(heap, authZ)
               gotRoles == getRolesAt(heap, authZ)
           IN /\ ValueOfPermissions(gotPermissions.heap, gotPermissions.ref) = unwrap(map)
              /\ ValueOfPermissions(gotLocal.heap, gotLocal.ref)
                     = SelectSeq(unwrap(map), LAMBDA e : e.context = local)
              /\ ValueOfPermissions(gotGlobal.heap, gotGlobal.ref)
                     = SelectSeq(unwrap(map), LAMBDA e : e.context = global)
              /\ ValueOfRoles(gotRoles.heap, gotRoles.ref) = given
              /\ \A ps \in RequiredPermissions :
                  /\ hasPermissions(read, ps) = \A i \in 1..Len(ps) : check(map, ps[i])
                  /\ hasLocalPermissions(read, ps)
                         = \A i \in 1..Len(ps) : checkLocal(map, ps[i])
                  /\ hasGlobalPermissions(read, ps)
                         = \A i \in 1..Len(ps) : checkGlobal(map, ps[i])
                  /\ hasActions(read, ps) = \A i \in 1..Len(ps) : checkAction(map, ps[i])
                  /\ hasLocalActions(read, ps)
                         = \A i \in 1..Len(ps) : checkActionLocal(map, ps[i])
                  /\ hasGlobalActions(read, ps)
                         = \A i \in 1..Len(ps) : checkActionGlobal(map, ps[i])
                  /\ \A i \in 1..Len(ps) :
                      getPermissionContext(read, ps[i]) = checkContext(map, ps[i])

\* The handler has pushed 'B' onto the resources of the permission that
\* getLocalPermissions() returned for 'User.Read.A', and then called
\* getPermissions().
C23_Witness ==
    /\ pc = "route"
    /\ log = <<"rolesProvider", "authZ", "next", "get", "mutation", "get">>
    /\ called = "getPermissions"
    /\ roles = LocalUser
    /\ \E a \in 1..Len(heap) :
        /\ heap[a].kind = "array"
        /\ heap[a].items = <<ResA, ResB>>
    /\ ValueOfPermissions(heap, returned) = unwrap(_populate(LocalUser))

(***************************************************************************)
(* C24-C25: markers during compilation.                                    *)
(***************************************************************************)
\* The field holds a marker, ALL or DEFAULT.
IsMarker(f) == IsALL(f) \/ IsDEFAULT(f)

\* The keys of a map.
KeysOf(map) == {map[i].key : i \in 1..Len(map)}

\* PermissionParser(roles) has returned, after _populate ran step by step.
Compiled == called = "PermissionParser" /\ frame = <<>>

\* C24: once the Read or Write field of a block holds a marker, ALL or
\* DEFAULT, it holds a marker after every later step of _populate, whatever
\* the permission strings and the roles that follow; a later grant of a
\* specific resource for the action leaves the field as it is. When
\* _populate returns the map is the map PermissionParser(roles) compiles.
C24_MarkersAreSticky ==
    [][/\ \A key \in KeysOf(permissions), a \in ReadOrWrite :
            IsMarker(Field(MapGet(permissions, key), a))
                => /\ MapHas(permissions', key)
                   /\ IsMarker(Field(MapGet(permissions', key), a))
                   /\ (/\ called = "_populate"
                       /\ AtString
                       /\ LET parsed == _parsePermission(
                                            roles[frame.role].permissions[frame.string])
                          IN parsed[3] \notin {resources_all, resources_default})
                        => Field(MapGet(permissions', key), a)
                               = Field(MapGet(permissions, key), a)
       /\ Compiled' => permissions' = _populate(roles)]_vars

\* _populate has passed 'User.Read.A' of a second role after the first
\* role granted 'User.ReadWrite.All', and Read is still ALL.
C24_Witness ==
    /\ called = "_populate"
    /\ Len(roles) = 2
    /\ roles[1].permissions = <<PS3(<<"User">>, <<"ReadWrite">>, resources_all)>>
    /\ roles[2].permissions = <<PS3(<<"User">>, <<"Read">>, ResA)>>
    /\ roles[1].context = roles[2].context
    /\ frame.role = 2
    /\ frame.string = 2
    /\ IsALL(Field(permissions[1].block, <<"Read">>))

\* The marker resources among the permission strings of a role.
MarkersOf(role) ==
    {_parsePermission(role.permissions[j])[3] : j \in 1..Len(role.permissions)}
        \intersect {resources_all, resources_default}

\* The role with its permission strings in the order f.
Reordered(role, f) == [role EXCEPT !.permissions = Permuted(role.permissions, f)]

\* C25: for a role whose permission strings for 'User' and Read hold one
\* kind of marker resource, All or none (DEFAULT), among any number of
\* specific resources, the Read field of the block is that marker for every
\* order of the strings of the role; and within a role list the field is
\* that marker when the iteration of the role ends, whatever the roles
\* before it left.
C25_MarkerDominates ==
    /\ (Compiled /\ Len(roles) = 1 /\ Cardinality(MarkersOf(roles[1])) = 1)
        => \A f \in IndexOrders(Len(roles[1].permissions)) :
            LET map == _populate(<<Reordered(roles[1], f)>>)
            IN /\ MapHas(map, _key(roles[1].context, <<"User">>))
               /\ Field(MapGet(map, _key(roles[1].context, <<"User">>)), <<"Read">>)
                      = Str(CHOOSE marker \in MarkersOf(roles[1]) : TRUE)
    /\ (/\ called = "_populate"
        /\ frame.role > 1
        /\ frame.string = 1
        /\ Cardinality(MarkersOf(roles[frame.role - 1])) = 1)
        => LET role == roles[frame.role - 1]
           IN /\ HasBlock(role.context, <<"User">>)
              /\ FieldOf(role.context, <<"User">>, <<"Read">>)
                     = Str(CHOOSE marker \in MarkersOf(role) : TRUE)

\* PermissionParser has compiled the one role with 'User.Read.A',
\* 'User.Read' and 'User.Read.B', in this order, to Read = DEFAULT.
C25_Witness ==
    /\ Compiled
    /\ Len(roles) = 1
    /\ roles[1].permissions = <<PS3(<<"User">>, <<"Read">>, ResA),
                                PS2(<<"User">>, <<"Read">>),
                                PS3(<<"User">>, <<"Read">>, ResB)>>
    /\ IsDEFAULT(Field(permissions[1].block, <<"Read">>))

(***************************************************************************)
(* C26: the queries are read-only.                                         *)
(***************************************************************************)
\* The value the method of a name returns for p on a map.
QueryResult(name, map, p) ==
    CASE name = "check" -> check(map, p)
      [] name = "checkLocal" -> checkLocal(map, p)
      [] name = "checkGlobal" -> checkGlobal(map, p)
      [] name = "checkAction" -> checkAction(map, p)
      [] name = "checkActionLocal" -> checkActionLocal(map, p)
      [] name = "checkActionGlobal" -> checkActionGlobal(map, p)
      [] name = "checkContext" -> checkContext(map, p)

\* C26: no step of PermissionParser(roles), of _populate or of a query,
\* changes the role list; once _populate has returned no call of unwrap,
\* check, checkLocal, checkGlobal, checkAction, checkActionLocal,
\* checkActionGlobal or checkContext changes the compiled map, so after any
\* sequence of queries the map is the map _populate compiled from the roles
\* and each query returns what it returns on that map.
C26_QueriesAreReadOnly ==
    [][/\ roles' = roles
       /\ called # "_populate" => permissions' = permissions
       /\ called' # "_populate"
            => LET compiled == _populate(roles)
               IN /\ permissions' = compiled
                  /\ called' = "unwrap" => returned' = unwrap(compiled)
                  /\ called' \notin {"unwrap", "PermissionParser"}
                       => \E p \in ActionQueries :
                              returned' = QueryResult(called', compiled, p)]_vars

\* checkLocal has returned true on a map of two blocks after unwrap() or
\* another query had run: the map is still the one compiled from the roles.
C26_Witness ==
    /\ called = "checkLocal"
    /\ returned = TRUE
    /\ Len(roles) = 2
    /\ Len(permissions) = 2
    /\ permissions = _populate(roles)
    /\ frame = <<>>

(***************************************************************************)
(* C27-C29: relations between unwrap() and the checks.                     *)
(***************************************************************************)
\* The flag of an action of an entry of unwrap().
Flag(entry, a) == IF a = <<"Read">> THEN entry.action.read ELSE entry.action.write

\* unwrap() holds an entry for (c, s) with the flag of a set whose resources
\* are a marker or a list that contains r.
Stated(map, c, s, a, r) ==
    LET entries == unwrap(map)
    IN \E i \in 1..Len(entries) :
        /\ entries[i].context = c
        /\ entries[i].scope = s
        /\ Flag(entries[i], a)
        /\ \/ IsALL(entries[i].resources)
           \/ IsDEFAULT(entries[i].resources)
           \/ IsArray(entries[i].resources) /\ Includes(entries[i].resources.v, r)

\* C27: for every role list, context c, scope s, action a of Read and Write
\* and resource r, unwrap() holds an entry of context c and scope s with the
\* flag of a set and resources that are a marker or a list containing r if
\* and only if checkLocal / checkGlobal (the one of c) of 's.a.r' returns
\* true.
C27_UnwrapMatchesChecks ==
    Built =>
        \A c \in Contexts, s \in QueryScopes \union KeyScopes, a \in ReadOrWrite,
           r \in {ResA, ResB} :
            Stated(permissions, c, s, a, r) = CheckIn(c, permissions, PS3(s, a, r))

\* The role list without its i-th role: roles is that list with one role
\* inserted at position i.
RemoveAt(rs, i) == SubSeq(rs, 1, i - 1) \o SubSeq(rs, i + 1, Len(rs))

\* The six checks, by the name of the method.
CheckNames ==
    {"check", "checkLocal", "checkGlobal",
     "checkAction", "checkActionLocal", "checkActionGlobal"}

\* The permission strings asked under R and under R': each action on the
\* granted scope with the granted resource, Read with another resource,
\* Write and ReadWrite without one, and a string of a scope nobody grants.
MonotoneQueries ==
    {PS3(<<"User">>, a, ResA) : a \in QueryActions}
    \union {PS3(<<"User">>, <<"Read">>, ResB), PS2(<<"User">>, <<"Write">>),
            PS2(<<"User">>, <<"ReadWrite">>), PS3(<<"Report">>, <<"Read">>, ResA)}

\* C28: for every role list R and every list R' that is R with one more
\* role inserted at any position, each of check, checkLocal, checkGlobal,
\* checkAction, checkActionLocal and checkActionGlobal that returns true for
\* a permission string under R returns true for it under R'.
C28_GrantingMoreNeverRevokes ==
    Built =>
        \A i \in 1..Len(roles) :
            LET before == _populate(RemoveAt(roles, i))
            IN \A name \in CheckNames, p \in MonotoneQueries :
                QueryResult(name, before, p) => QueryResult(name, permissions, p)

\* A role that grants Write without a resource inserted after a role that
\* grants ReadWrite on every resource: the Write field of User was ALL
\* under R and is DEFAULT under R', and 'User.Write.A' passed under R.
C28_Witness ==
    /\ Built
    /\ Len(roles) = 2
    /\ \E c \in Contexts :
        LET before == _populate(RemoveAt(roles, 2))
        IN /\ MapHas(before, _key(c, <<"User">>))
           /\ IsALL(Field(MapGet(before, _key(c, <<"User">>)), <<"Write">>))
           /\ HasBlock(c, <<"User">>)
           /\ IsDEFAULT(FieldOf(c, <<"User">>, <<"Write">>))
           /\ CheckIn(c, before, PS3(<<"User">>, <<"Write">>, ResA))

\* The permission strings of C29: the well-formed queries, a query with an
\* action that is not allowed and one without an action segment.
ImplicationQueries ==
    QueryStrings \union {PS3(<<"User">>, <<"Delete">>, ResA), <<"User">>}

\* C29: for every role list and permission string p, checkLocal(p) implies
\* checkActionLocal(p), checkGlobal(p) implies checkActionGlobal(p) and
\* check(p) implies checkAction(p).
C29_FullMatchImpliesActionMatch ==
    Built =>
        \A p \in ImplicationQueries :
            /\ checkLocal(permissions, p) => checkActionLocal(permissions, p)
            /\ checkGlobal(permissions, p) => checkActionGlobal(permissions, p)
            /\ check(permissions, p) => checkAction(permissions, p)

\* A full match through a specific list in the local context and one
\* through both markers in the global context.
C29_Witness ==
    /\ Built
    /\ HasBlock(local, <<"User">>)
    /\ IsArray(FieldOf(local, <<"User">>, <<"Read">>))
    /\ checkLocal(permissions, PS3(<<"User">>, <<"Read">>, ResA))
    /\ checkActionLocal(permissions, PS3(<<"User">>, <<"Read">>, ResA))
    /\ HasBlock(global, <<"Report">>)
    /\ IsALL(FieldOf(global, <<"Report">>, <<"Read">>))
    /\ IsDEFAULT(FieldOf(global, <<"Report">>, <<"Write">>))
    /\ checkGlobal(permissions, PS3(<<"Report">>, <<"ReadWrite">>, ResA))
    /\ check(permissions, PS3(<<"Report">>, <<"ReadWrite">>, ResA))
    /\ ~checkLocal(permissions, PS3(<<"Report">>, <<"ReadWrite">>, ResA))

(***************************************************************************)
(* C30: empty requirement lists.                                           *)
(***************************************************************************)
\* The six has... methods of request.authZ.
HasMethods ==
    {"hasPermissions", "hasGlobalPermissions", "hasLocalPermissions",
     "hasActions", "hasGlobalActions", "hasLocalActions"}

\* C30: on the request.authZ of every user, one without roles included,
\* hasPermissions, hasLocalPermissions, hasGlobalPermissions, hasActions,
\* hasLocalActions and hasGlobalActions called with no arguments return
\* true, and a route middleware made with no permissions that is called
\* with a request that carries authZ calls next() and sends no response.
C30_EmptyRequirementsPass ==
    [][/\ request.authZ.defined
            => \A method \in HasMethods : permissionChecker(method, request.authZ, <<>>)
       /\ (/\ pc \in {"middleware", "route"}
           /\ log' # log
           /\ handler'.name \in RouteMiddlewares
           /\ handler'.permissions = <<>>
           /\ request.authZ.defined)
             => /\ log' = Append(log, "next")
                /\ response' = response
                /\ response'.sent = 0
                /\ pc' = "route"]_vars

\* withGlobalActions() has called next() for a user whose rolesProvider
\* resolved to no roles, after the global middleware had called next().
C30_Witness ==
    /\ pc = "route"
    /\ handler = [name |-> "withGlobalActions", permissions |-> <<>>]
    /\ request.authZ.defined
    /\ roles = <<>>
    /\ permissions = <<>>
    /\ log = <<"rolesProvider", "authZ", "next", "next">>
    /\ response.sent = 0
    /\ hasLocalPermissions(request.authZ, <<>>)
    /\ ~hasLocalPermissions(request.authZ, <<PS3(<<"User">>, <<"Read">>, ResA)>>)

====
